---- MODULE Spec2Model ----
(***************************************************************************)
(* Model of the waf-detector evidence-fusion engine:                       *)
(*   registry/mod.rs   ProviderRegistry (register_provider, detect_all)    *)
(*   engine/mod.rs     DetectionEngine::detect                             *)
(*   confidence/advanced_scoring.rs   AdvancedScoring                      *)
(*   providers/*.rs    the five passive provider plugins                   *)
(*   payload/mod.rs, timing/mod.rs, dns/mod.rs   the synthetic sources     *)
(*                                                                         *)
(* Numbers.  f64 values are fixed-point integers.  An Evidence confidence  *)
(* is in hundredths (0.95 is 95).  base_weight, specificity and reliability*)
(* are in hundredths, so their product is exact in millionths, and a score *)
(* is in units of 1/Scale (conf * base * spec * rel, exact).  A product    *)
(* with a factor such as 0.3 or 1.1 is truncated to that unit.             *)
(***************************************************************************)
EXTENDS Integers, Sequences, FiniteSets, TLC

VARIABLES
    providers,        \* registry: the registered provider names (both DashMaps)
    pc,               \* position of the one detection in progress
    response,         \* the HttpResponse of the primary probe, or NoResponse
    sorted,           \* detect_all: enabled providers, sorted by priority
    provider_results, \* detect_all: results of join_all(futures)
    timing_result,    \* detect_all: outcome of timing_future (Pending until done)
    dns_result,       \* detect_all: outcome of dns_future
    payload_result,   \* detect_all: outcome of payload_future
    detection,        \* what detect returned: a DetectionResult, an error, or NoResult
    scorer,           \* the last call of calculate_confidence and its result
    payload,          \* the last run of analyze_blocked_payloads / to_evidence
    timing,           \* the last run of TimingAnalyzer::baseline_comparison
    batch,            \* the one call of detect_batch: its stream, its buffer, its results
    smoke,            \* the last run of the smoke-test classifier and summary
    registry          \* both DashMaps and the calls of register_provider in progress

vars == <<providers, pc, response, sorted, provider_results, timing_result,
          dns_result, payload_result, detection, scorer, payload, timing, batch, smoke, registry>>

(***************************************************************************)
(* Fixed-point arithmetic                                                  *)
(***************************************************************************)
Scale == 100 * 100 * 100 * 100

Min(a, b) == IF a <= b THEN a ELSE b

Max(a, b) == IF a >= b THEN a ELSE b

\* floor(m * n / d) without the intermediate product m * n
FloorMul(m, n, d) == (m \div d) * n + ((m % d) * n) \div d

\* ceiling(m * n / d)
CeilMul(m, n, d) == (m \div d) * n + ((m % d) * n + d - 1) \div d

RECURSIVE SeqSum(_)
SeqSum(s) == IF s = <<>> THEN 0 ELSE Head(s) + SeqSum(Tail(s))

RECURSIVE SetToSeq(_)
\* iteration over a HashMap: one enumeration of its keys (the order is not
\* specified; what is computed from it here does not depend on the order)
SetToSeq(S) ==
    IF S = {} THEN <<>>
    ELSE LET x == CHOOSE y \in S : TRUE IN <<x>> \o SetToSeq(S \ {x})

\* all the orders in which a finite set can be enumerated
Perms(S) == { f \in [1..Cardinality(S) -> S] : \A i, j \in 1..Cardinality(S) : i # j => f[i] # f[j] }

(***************************************************************************)
(* Evidence (lib.rs) and the scorer (confidence/advanced_scoring.rs)       *)
(***************************************************************************)
\* Evidence: method_type is the DetectionMethod variant, arg its payload
\* (the header name, the body tag, the status code as a string, ...).
Ev(kind, arg, conf, sig) ==
    [method_type |-> kind, arg |-> arg, confidence |-> conf, signature_matched |-> sig]

EvidenceCategory == {"Headers", "Server", "Body", "StatusCode", "Behavioral", "ErrorPage", "Network"}

\* AdvancedScoring::new: the evidence_weights table,
\* <<signature, base_weight, specificity, reliability, category>>
evidence_weights ==
    {
        <<"cf-ray-header", 95, 98, 99, "Headers">>,
        <<"cf-cache-status-header", 90, 95, 95, "Headers">>,
        <<"cloudflare-server-header", 85, 90, 92, "Server">>,
        <<"cf-challenge-body", 70, 60, 75, "Body">>,
        <<"cf-error-body", 65, 55, 70, "Body">>,
        <<"cf-js-body", 60, 50, 65, "Body">>,
        <<"cf-connecting-ip-header", 80, 85, 90, "Headers">>,
        <<"cf-ipcountry-header", 75, 80, 85, "Headers">>,
        <<"cf-visitor-header", 75, 80, 85, "Headers">>,
        <<"cf-request-id-header", 85, 90, 92, "Headers">>,
        <<"cf-403-status", 75, 70, 80, "StatusCode">>,
        <<"cf-429-status", 80, 75, 85, "StatusCode">>,
        <<"x-amz-cf-id-header", 95, 99, 98, "Headers">>,
        <<"x-amz-cf-pop-header", 90, 95, 96, "Headers">>,
        <<"cloudfront-server-header", 88, 92, 94, "Server">>,
        <<"cloudfront-via-header", 85, 88, 90, "Headers">>,
        <<"akamai-grn-header", 92, 96, 95, "Headers">>,
        <<"x-akamai-header", 90, 94, 93, "Headers">>,
        <<"fastly-header", 90, 93, 92, "Headers">>,
        <<"x-served-by-fastly", 88, 90, 89, "Headers">>,
        <<"x-vercel-id-header", 95, 98, 96, "Headers">>,
        <<"vercel-server-header", 90, 95, 93, "Server">>,
        <<"timing-waf-delay", 85, 90, 88, "Behavioral">>,
        <<"timing-pattern-analysis", 80, 85, 82, "Behavioral">>,
        <<"timing-baseline-comparison", 83, 87, 85, "Behavioral">>,
        <<"dns-cname-cloudflare", 98, 99, 98, "Network">>,
        <<"dns-cname-aws", 98, 99, 98, "Network">>,
        <<"dns-cname-fastly", 98, 99, 98, "Network">>,
        <<"dns-cname-akamai", 98, 99, 98, "Network">>,
        <<"dns-cname-vercel", 99, 99, 98, "Network">>,
        <<"dns-cname-keycdn", 98, 99, 98, "Network">>,
        <<"dns-cname-maxcdn", 98, 99, 98, "Network">>,
        <<"payload_detection_cloudflare", 80, 85, 75, "Behavioral">>,
        <<"payload_detection_aws_waf", 80, 85, 75, "Behavioral">>,
        <<"payload_detection_akamai", 80, 85, 75, "Behavioral">>,
        <<"payload_detection_generic_waf", 70, 70, 65, "Behavioral">>,
        <<"blocked_xss_payload", 75, 80, 70, "Behavioral">>,
        <<"blocked_sqlinjection_payload", 75, 80, 70, "Behavioral">>,
        <<"blocked_commandinjection_payload", 78, 82, 72, "Behavioral">>,
        <<"blocked_pathtraversal_payload", 77, 81, 71, "Behavioral">>
    }

\* AdvancedScoring::new with the insert under "AWS" left out
negative_inserts_without_aws ==
    << <<"CloudFlare", <<"x-amz-cf-id", "x-amz-cf-pop", "cloudfront">> >>,
       <<"CloudFlare", <<"akamai-grn", "x-akamai-transformed">> >> >>

\* AdvancedScoring::new: the three inserts into negative_evidence_patterns, in order
negative_inserts ==
    << <<"CloudFlare", <<"x-amz-cf-id", "x-amz-cf-pop", "cloudfront">> >>,
       <<"AWS", <<"cf-ray", "cf-cache-status">> >>,
       <<"CloudFlare", <<"akamai-grn", "x-akamai-transformed">> >> >>

\* HashMap::insert: the value of the last insert under a key replaces the earlier ones
HashMapGet(inserts, key) ==
    LET idx == { i \in 1..Len(inserts) : inserts[i][1] = key }
    IN  IF idx = {} THEN <<>>
        ELSE inserts[CHOOSE i \in idx : \A j \in idx : j <= i][2]

negative_evidence_patterns(provider) == HashMapGet(negative_inserts, provider)

\* get_fallback_weight: the weight of a signature that is not in the table
get_fallback_weight(method_type) ==
    CASE method_type = "Header"      -> [base_weight |-> 85, specificity |-> 80, reliability |-> 90, category |-> "Headers"]
      [] method_type = "StatusCode"  -> [base_weight |-> 75, specificity |-> 65, reliability |-> 75, category |-> "StatusCode"]
      [] method_type = "Body"        -> [base_weight |-> 55, specificity |-> 45, reliability |-> 60, category |-> "Body"]
      [] method_type = "Timing"      -> [base_weight |-> 60, specificity |-> 50, reliability |-> 65, category |-> "Behavioral"]
      [] method_type = "DNS"         -> [base_weight |-> 70, specificity |-> 60, reliability |-> 75, category |-> "Network"]
      [] method_type = "Certificate" -> [base_weight |-> 75, specificity |-> 70, reliability |-> 80, category |-> "Network"]
      [] method_type = "Payload"     -> [base_weight |-> 80, specificity |-> 85, reliability |-> 75, category |-> "Behavioral"]

\* one entry of evidence_weights as an EvidenceWeight
EntryWeight(t) ==
    [base_weight |-> t[2], specificity |-> t[3], reliability |-> t[4], category |-> t[5]]

\* lines 447-452: the entry found for the signature, else the fallback
WeightFrom(hits, method_type) ==
    IF hits # {} THEN EntryWeight(CHOOSE t \in hits : TRUE)
    ELSE get_fallback_weight(method_type)

\* calculate_confidence, lines 447-452: table lookup by signature_matched
WeightOf(ev) ==
    WeightFrom({ t \in evidence_weights : t[1] = ev.signature_matched }, ev.method_type)

\* line 454: confidence * base_weight * specificity * reliability, in 1/Scale
Weighted(confidence, w) == confidence * (w.base_weight * w.specificity * w.reliability)

EvidenceScore(ev) == Weighted(ev.confidence, WeightOf(ev))

\* line 458: what one Evidence adds to the evidence_breakdown entry of a category
CategoryPart(confidence, w, category) ==
    IF w.category = category THEN Weighted(confidence, w) ELSE 0

RECURSIVE CategoryScore(_, _)
\* the evidence_breakdown entry of one category
CategoryScore(evidence, category) ==
    IF evidence = <<>> THEN 0
    ELSE CategoryPart(Head(evidence).confidence, WeightOf(Head(evidence)), category)
         + CategoryScore(Tail(evidence), category)

RECURSIVE PositiveScore(_)
\* total_score after the loop over the evidence
PositiveScore(evidence) ==
    IF evidence = <<>> THEN 0
    ELSE EvidenceScore(Head(evidence)) + PositiveScore(Tail(evidence))

\* header_name.to_lowercase().contains(pattern): header names of the model that
\* contain a pattern without being equal to it
ProperSubstring ==
    { <<"x-akamai-transformed-by", "x-akamai-transformed">> }

Contains(header_name, pattern) ==
    header_name = pattern \/ <<header_name, pattern>> \in ProperSubstring

\* lines 473-486: one penalty for each (pattern, header name) pair that matches
NegativeCount(provider, header_names) ==
    LET pats == negative_evidence_patterns(provider)
    IN  Cardinality({ pr \in (1..Len(pats)) \X header_names : Contains(pr[2], pats[pr[1]]) })

RECURSIVE Penalise(_, _)
\* total_score *= 0.3, k times
Penalise(total, k) == IF k = 0 THEN total ELSE Penalise(FloorMul(total, 3, 10), k - 1)

\* line 493: header_evidence_ratio > 0.7, the ratio taken over total_score.max(0.001)
HeaderBonusApplies(headers_score, total) ==
    headers_score > FloorMul(Max(total, Scale \div 1000), 7, 10)

\* line 499: body_evidence_ratio > 0.5 && header_evidence_ratio < 0.3
BodyPenaltyApplies(headers_score, body_score, total) ==
    /\ body_score > FloorMul(Max(total, Scale \div 1000), 1, 2)
    /\ headers_score < CeilMul(Max(total, Scale \div 1000), 3, 10)

\* line 505: the number of categories with a positive subtotal
NonZeroCategories(evidence) ==
    Cardinality({ c \in EvidenceCategory : CategoryScore(evidence, c) > 0 })

\* lines 515-529
LevelOf(score) ==
    IF score >= 98 * (Scale \div 100) THEN "Absolute"
    ELSE IF score >= 95 * (Scale \div 100) THEN "NearCertain"
    ELSE IF score >= 90 * (Scale \div 100) THEN "VeryHigh"
    ELSE IF score >= 80 * (Scale \div 100) THEN "High"
    ELSE IF score >= 60 * (Scale \div 100) THEN "Moderate"
    ELSE IF score >= 20 * (Scale \div 100) THEN "Low"
    ELSE "None"

\* line 512, with every step before it dropped: total_score is returned as it is
CeilingDropped(total) == total

\* line 512: total_score.min(1.0)
Ceiling(total) == Min(total, Scale)

\* line 494 left out: total_score is not raised
header_bonus_dropped(applies, total) == total

\* line 500 left out: total_score is not lowered
body_penalty_dropped(applies, total) == total

\* line 494: total_score *= 1.1
HeaderBonus(applies, total) == IF applies THEN FloorMul(total, 11, 10) ELSE total

\* line 500: total_score *= 0.8
BodyPenalty(applies, total) == IF applies THEN FloorMul(total, 8, 10) ELSE total

\* lines 505-507: total_score *= 1.05 when three categories or more have evidence
DiversityBonus(evidence, total) ==
    IF NonZeroCategories(evidence) >= 3 THEN FloorMul(total, 105, 100) ELSE total

\* lines 531-552: the ConfidenceResult
ConfidenceResult(evidence, positive, negatives, header_bonus, body_penalty, final) ==
    [score |-> final,
     level |-> LevelOf(final),
     positive_evidence_count |-> Len(evidence),
     negative_evidence_count |-> negatives,
     header_bonus |-> header_bonus,
     body_penalty |-> body_penalty,
     pre_penalty_total |-> positive]

\* lines 493-512: the bonuses, the body penalty and the ceiling, in this order
Adjust(evidence, positive, negatives, header_bonus, body_penalty, penalised) ==
    ConfidenceResult(evidence, positive, negatives, header_bonus, body_penalty,
        Ceiling(DiversityBonus(evidence,
                    BodyPenalty(body_penalty, HeaderBonus(header_bonus, penalised)))))

\* lines 489-499: both ratios are taken once, over the penalised total
Ratios(evidence, positive, negatives, hscore, bscore, penalised) ==
    Adjust(evidence, positive, negatives,
           HeaderBonusApplies(hscore, penalised),
           BodyPenaltyApplies(hscore, bscore, penalised), penalised)

\* lines 472-486: the contradiction penalties on the total of the loop
Contradictions(evidence, positive, negatives, hscore, bscore) ==
    Ratios(evidence, positive, negatives, hscore, bscore, Penalise(positive, negatives))

\* AdvancedScoring::calculate_confidence; header_names are the keys of response_headers
calculate_confidence(provider, evidence, header_names) ==
    Contradictions(evidence, PositiveScore(evidence), NegativeCount(provider, header_names),
                   CategoryScore(evidence, "Headers"), CategoryScore(evidence, "Body"))

(***************************************************************************)
(* HttpResponse (http/mod.rs) and the header values and bodies of the model*)
(***************************************************************************)
\* HttpResponse: headers is a map from lower-case header names to values
Resp(status, headers, body) == [status |-> status, headers |-> headers, body |-> body]

Has(r, name) == name \in DOMAIN r.headers

\* response.headers.get(name).map_or(false, |v| v in set)
ValIn(r, name, set) == Has(r, name) /\ r.headers[name] \in set

\* one-entry and merged header maps
Hdr(name, value) == [n \in {name} |-> value]

Merge(f, g) == [n \in DOMAIN f \cup DOMAIN g |-> IF n \in DOMAIN f THEN f[n] ELSE g[n]]

NoHeaders == [n \in {} |-> ""]

\* header values of the model
RayId == "7a1b2c3d4e5f6a7b-DFW"

CfId == "abcd1234-ab12-cd34-ef56-abcdef123456"

PopId == "DFW3-C1"

ViaVarnish == "1.1 varnish"

ViaCloudFront == "1.1 d1234.cloudfront.net (CloudFront)"

HitFromCloudFront == "HIT from cloudfront"

VercelId == "iad1::abc12-1700000000000-0123456789ab"

AkamaiTransformed == "9 - 0 pmb=mRUM,1"

\* bodies of the model
PlainBody == "Hello"

ChallengeBody == "Checking your browser before accessing example.com. Cloudflare cf_chl_jschl_tk"

DeniedBody == "Access Denied. Reference #18.2d3a1502.1700000000.1a2b3c4d"

\* Each regex of the providers is the set of the model's header values (or
\* bodies) it matches, whichever header carries them.
\* cloudflare.rs
cf_ray_pattern == {RayId}

cf_cache_pattern == {"HIT", HitFromCloudFront}

cf_server_pattern == {"cloudflare"}

cf_challenge_pattern == {ChallengeBody}

cf_error_pattern == {}

cf_js_pattern == {ChallengeBody}

\* aws.rs
aws_request_id_pattern == {CfId}

cloudfront_id_pattern == {CfId}

cloudfront_pop_pattern == {PopId}

cloudfront_via_pattern == {ViaCloudFront, "CloudFront", HitFromCloudFront}

cloudfront_cache_pattern == {ViaCloudFront, "CloudFront", HitFromCloudFront}

cloudfront_server_pattern == {ViaCloudFront, "CloudFront", HitFromCloudFront}

cloudfront_age_pattern == {"0"}

aws_error_body_pattern == {DeniedBody}

aws_json_error_pattern == {}

\* value.contains("CloudFront"), case-sensitive
ContainsCloudFront == {ViaCloudFront, "CloudFront"}

\* value.contains("cloudfront"), case-sensitive
ContainsLcCloudfront == {ViaCloudFront, HitFromCloudFront}

\* value.to_lowercase().contains("cloudfront")
ContainsCloudfrontLower == {ViaCloudFront, "CloudFront", HitFromCloudFront}

\* value.contains("cloudfront.net") || value.contains("amazonaws.com")
ContainsAwsDomain == {ViaCloudFront}

\* value.contains("cache")
ContainsCache == {}

\* value.contains("S")
ContainsS == {"US", "YES"}

\* value.contains("max-age")
ContainsMaxAge == {}

\* edge.len() >= 6 && the first three characters are ASCII letters
flexible_pop_pattern == {PopId, "cloudflare", "CloudFront", "AkamaiGHost", "Vercel", HitFromCloudFront}

\* etag.contains("-") && etag.len() > 10
EtagLike == {RayId, CfId, VercelId, AkamaiTransformed}

\* the server header tested for its presence only: every server value of the model
server_header_present == {"AkamaiGHost", "cloudflare", "CloudFront", "Vercel", "nginx/1.18.0"}

\* akamai.rs
akamai_server_pattern == {"AkamaiGHost"}

akamai_cache_pattern == {}

akamai_reference_pattern == {DeniedBody}

akamai_error_page_pattern == {DeniedBody}

akamai_x_header_pattern == {"x-akamai-transformed", "x-akamai-transformed-by"}

\* fastly.rs
fastly_restarts_pattern == {"0"}

fastly_via_pattern == {ViaVarnish}

fastly_served_by_pattern == {}

fastly_cache_pattern == {"HIT", HitFromCloudFront}

fastly_timing_pattern == {}

\* vercel.rs
vercel_id_pattern == {VercelId}

vercel_cache_pattern == {"HIT"}

\* the conditional push of one Evidence
PushIf(cond, ev) == IF cond THEN <<ev>> ELSE <<>>

(***************************************************************************)
(* providers/cloudflare.rs                                                 *)
(***************************************************************************)
CloudFlare_check_headers(r) ==
    PushIf(ValIn(r, "cf-ray", cf_ray_pattern), Ev("Header", "cf-ray", 95, "cf-ray-header"))
    \o PushIf(ValIn(r, "cf-cache-status", cf_cache_pattern),
              Ev("Header", "cf-cache-status", 90, "cf-cache-status-header"))
    \o PushIf(ValIn(r, "server", cf_server_pattern), Ev("Header", "server", 85, "cloudflare-server-header"))
    \o PushIf(Has(r, "cf-connecting-ip"), Ev("Header", "cf-connecting-ip", 80, "cf-connecting-ip-header"))
    \o PushIf(Has(r, "cf-ipcountry"), Ev("Header", "cf-ipcountry", 75, "cf-ipcountry-header"))
    \o PushIf(Has(r, "cf-visitor"), Ev("Header", "cf-visitor", 75, "cf-visitor-header"))
    \o PushIf(Has(r, "cf-request-id"), Ev("Header", "cf-request-id", 85, "cf-request-id-header"))

CloudFlare_check_body_patterns(r) ==
    PushIf(r.body \in cf_challenge_pattern, Ev("Body", "challenge-page-detected", 70, "cf-challenge-body"))
    \o PushIf(r.body \in cf_error_pattern, Ev("Body", "error-page-detected", 65, "cf-error-body"))
    \o PushIf(r.body \in cf_js_pattern, Ev("Body", "js-tokens-detected", 60, "cf-js-body"))

CloudFlare_check_status_codes(r) ==
    PushIf(r.status = 403 /\ (Has(r, "cf-ray") \/ r.body \in cf_challenge_pattern),
           Ev("StatusCode", "403", 75, "cf-403-status"))
    \o PushIf(r.status = 429 /\ Has(r, "cf-ray"), Ev("StatusCode", "429", 80, "cf-429-status"))

CloudFlare_detect(r) ==
    CloudFlare_check_headers(r) \o CloudFlare_check_body_patterns(r) \o CloudFlare_check_status_codes(r)

(***************************************************************************)
(* providers/aws.rs                                                        *)
(***************************************************************************)
\* lines 169-172
has_other_cf_indicators(r) ==
    \/ Has(r, "x-amz-cf-id")
    \/ Has(r, "x-amz-cf-pop")
    \/ ValIn(r, "via", cloudfront_via_pattern)
    \/ ValIn(r, "x-cache", cloudfront_cache_pattern)

\* lines 221-226, the gate of x-timer
TimerGate(r) ==
    \/ Has(r, "x-amz-cf-pop")
    \/ Has(r, "x-amz-cf-id")
    \/ ValIn(r, "via", ContainsCloudFront)
    \/ ValIn(r, "server", ContainsCloudFront)

\* lines 312-316
has_cloudfront_evidence(r) == TimerGate(r) \/ Has(r, "x-amzn-requestid")

\* lines 252-271: the AWS headers matched by presence alone
aws_headers ==
    << <<"x-amz-request-id", 80>>, <<"x-amz-id-2", 75>>, <<"x-amz-bucket-region", 75>>,
       <<"x-amz-server-side-encryption", 70>>, <<"x-amz-apigw-id", 85>>, <<"x-amzn-trace-id", 80>> >>

RECURSIVE PresenceEvidence(_, _)
\* one Evidence, signed "<name>-pattern", for each header of a
\* <<name, confidence>> list that is present
PresenceEvidence(r, list) ==
    IF list = <<>> THEN <<>>
    ELSE PushIf(Has(r, Head(list)[1]),
                Ev("Header", Head(list)[1], Head(list)[2], Head(list)[1] \o "-pattern"))
         \o PresenceEvidence(r, Tail(list))

AWS_check_headers(r) ==
    PushIf(ValIn(r, "x-amzn-requestid", aws_request_id_pattern),
           Ev("Header", "x-amzn-requestid", 85, "aws-request-id-pattern"))
    \o PushIf(Has(r, "x-amzn-errortype"), Ev("Header", "x-amzn-errortype", 90, "aws-error-type-pattern"))
    \o PushIf(ValIn(r, "x-amz-cf-id", cloudfront_id_pattern),
              Ev("Header", "x-amz-cf-id", 95, "cloudfront-id-pattern"))
    \o PushIf(ValIn(r, "x-amz-cf-pop", cloudfront_pop_pattern),
              Ev("Header", "x-amz-cf-pop", 90, "cloudfront-pop-pattern"))
    \o PushIf(ValIn(r, "via", cloudfront_via_pattern), Ev("Header", "via", 85, "cloudfront-via-pattern"))
    \o PushIf(ValIn(r, "x-cache", cloudfront_cache_pattern),
              Ev("Header", "x-cache", 80, "cloudfront-cache-pattern"))
    \o PushIf(ValIn(r, "server", cloudfront_server_pattern),
              Ev("Header", "server", 85, "cloudfront-server-pattern"))
    \o PushIf(ValIn(r, "age", cloudfront_age_pattern) /\ has_other_cf_indicators(r),
              Ev("Header", "age", 60, "cloudfront-age-pattern"))
    \o PushIf(ValIn(r, "host", ContainsLcCloudfront),
              Ev("Header", "host", 95, "cloudfront-domain-pattern"))
    \o PushIf(\/ ValIn(r, "x-served-by", ContainsLcCloudfront)
              \/ /\ ValIn(r, "x-served-by", ContainsCache)
                 /\ (\/ Has(r, "x-amz-cf-pop") \/ Has(r, "x-amz-cf-id")
                     \/ ValIn(r, "via", ContainsCloudFront)),
              Ev("Header", "x-served-by", 75, "cloudfront-served-by-pattern"))
    \o PushIf(ValIn(r, "x-timer", ContainsS) /\ TimerGate(r),
              Ev("Header", "x-timer", 65, "cloudfront-timer-pattern"))
    \o PushIf(ValIn(r, "x-amz-cf-pop", flexible_pop_pattern),
              Ev("Header", "x-amz-cf-pop", 90, "cloudfront-pop-flexible-pattern"))
    \o PresenceEvidence(r, aws_headers)
    \o PushIf(ValIn(r, "content-security-policy", ContainsAwsDomain),
              Ev("Header", "content-security-policy", 70, "aws-csp-pattern"))
    \o PushIf(ValIn(r, "etag", EtagLike) /\ Has(r, "age") /\ Has(r, "cache-control"),
              Ev("Header", "etag", 45, "cloudfront-etag-pattern"))
    \o PushIf(ValIn(r, "cache-control", ContainsMaxAge) /\ Has(r, "age") /\ has_cloudfront_evidence(r),
              Ev("Header", "cache-control", 35, "cloudfront-cache-pattern"))
    \o PushIf(ValIn(r, "access-control-allow-origin", ContainsAwsDomain),
              Ev("Header", "access-control-allow-origin", 80, "aws-cors-pattern"))

AWS_check_body_patterns(r) ==
    PushIf(r.body \in aws_error_body_pattern, Ev("Body", "access-denied-page", 75, "aws-error-body-pattern"))
    \o PushIf(r.body \in aws_json_error_pattern, Ev("Body", "json-error-response", 80, "aws-json-error-pattern"))

AWS_check_status_codes(r) ==
    PushIf(r.status = 403 /\ (\/ Has(r, "x-amzn-requestid") \/ Has(r, "x-amzn-errortype")
                              \/ Has(r, "x-amz-cf-id") \/ r.body \in aws_error_body_pattern),
           Ev("StatusCode", "403", 75, "aws-403-pattern"))
    \o PushIf(r.status = 429 /\ (Has(r, "x-amzn-requestid") \/ Has(r, "x-amz-cf-id")),
              Ev("StatusCode", "429", 80, "aws-429-pattern"))
    \o PushIf(r.status = 503 /\ (Has(r, "x-amzn-requestid") \/ Has(r, "x-amz-cf-id")),
              Ev("StatusCode", "503", 70, "aws-503-pattern"))

AWS_detect(r) == AWS_check_headers(r) \o AWS_check_body_patterns(r) \o AWS_check_status_codes(r)

(***************************************************************************)
(* providers/akamai.rs                                                     *)
(***************************************************************************)
\* lines 87-93: the confidence of an x-akamai-* header
AkamaiXConfidence(name) ==
    CASE name = "x-akamai-request-id" -> 95
      [] name = "x-akamai-session-info" -> 90
      [] name = "x-akamai-transformed" -> 85
      [] name = "x-akamai-edgescape" -> 85
      [] OTHER -> 80

RECURSIVE AkamaiXEvidence(_)
\* lines 85-103: one Evidence for each header name of a list that matches ^x-akamai-
AkamaiXEvidence(names) ==
    IF names = <<>> THEN <<>>
    ELSE PushIf(Head(names) \in akamai_x_header_pattern,
                Ev("Header", Head(names), AkamaiXConfidence(Head(names)), "akamai-x-header-pattern"))
         \o AkamaiXEvidence(Tail(names))

akamai_headers == << <<"x-check-cacheable", 85>>, <<"true-client-ip", 75>> >>

Akamai_check_headers(r) ==
    PushIf(ValIn(r, "server", akamai_server_pattern), Ev("Header", "server", 95, "akamai-server-pattern"))
    \o PushIf(ValIn(r, "x-cache", akamai_cache_pattern), Ev("Header", "x-cache", 90, "akamai-cache-pattern"))
    \o PushIf(ValIn(r, "x-cache-remote", akamai_cache_pattern),
              Ev("Header", "x-cache-remote", 90, "akamai-cache-pattern"))
    \o AkamaiXEvidence(SetToSeq(DOMAIN r.headers))
    \o PresenceEvidence(r, akamai_headers)

\* body.contains("akamai") || body.contains("akamaitechnologies")
ContainsAkamai == {}

Akamai_check_body_patterns(r) ==
    PushIf(r.body \in akamai_reference_pattern, Ev("Body", "reference-id-detected", 90, "akamai-reference-pattern"))
    \o PushIf(r.body \in akamai_error_page_pattern, Ev("Body", "error-page-detected", 90, "akamai-error-page-pattern"))
    \o PushIf(r.body \in ContainsAkamai, Ev("Body", "content-reference-detected", 75, "akamai-content-pattern"))

Akamai_check_status_codes(r) ==
    PushIf(r.status = 403 /\ (\/ \E k \in DOMAIN r.headers : k \in akamai_x_header_pattern
                              \/ r.body \in akamai_reference_pattern),
           Ev("StatusCode", "403", 80, "akamai-403-pattern"))
    \o PushIf(r.status = 404 /\ r.body \in akamai_reference_pattern,
              Ev("StatusCode", "404", 75, "akamai-404-pattern"))

Akamai_detect(r) ==
    Akamai_check_headers(r) \o Akamai_check_body_patterns(r) \o Akamai_check_status_codes(r)

(***************************************************************************)
(* providers/fastly.rs                                                     *)
(***************************************************************************)
Fastly_check_headers(r) ==
    PushIf(ValIn(r, "fastly-restarts", fastly_restarts_pattern),
           Ev("Header", "fastly-restarts", 98, "fastly-restarts-pattern"))
    \o PushIf(ValIn(r, "via", fastly_via_pattern), Ev("Header", "via", 90, "fastly-via-pattern"))
    \o PushIf(ValIn(r, "x-served-by", fastly_served_by_pattern),
              Ev("Header", "x-served-by", 95, "fastly-served-by-pattern"))
    \o PushIf(ValIn(r, "x-cache", fastly_cache_pattern) /\ ~ValIn(r, "x-cache", ContainsCloudfrontLower),
              Ev("Header", "x-cache", 85, "fastly-cache-pattern"))
    \o PushIf(Has(r, "x-cache-hits"), Ev("Header", "x-cache-hits", 85, "fastly-cache-hits-pattern"))
    \o PushIf(ValIn(r, "x-timer", fastly_timing_pattern), Ev("Header", "x-timer", 80, "fastly-timing-pattern"))

\* body.contains("Fastly error") || body.contains("fastly.com")
ContainsFastlyError == {}

Fastly_check_body_patterns(r) ==
    PushIf(r.body \in ContainsFastlyError, Ev("Body", "fastly-error-page", 90, "fastly-error-page-pattern"))

Fastly_check_status_codes(r) ==
    PushIf(r.status = 403 /\ (Has(r, "fastly-restarts") \/ ValIn(r, "x-served-by", fastly_served_by_pattern)),
           Ev("StatusCode", "403", 80, "fastly-403-pattern"))
    \o PushIf(r.status = 429 /\ Has(r, "fastly-restarts"), Ev("StatusCode", "429", 85, "fastly-429-pattern"))

Fastly_detect(r) ==
    Fastly_check_headers(r) \o Fastly_check_body_patterns(r) \o Fastly_check_status_codes(r)

(***************************************************************************)
(* providers/vercel.rs                                                     *)
(***************************************************************************)
\* value.contains("vercel.app") || value.contains("vercel.com")
ContainsVercelDomain == {}

RECURSIVE VercelDomainEvidence(_, _)
\* lines 125-135: one Evidence for each header whose value names a Vercel domain
VercelDomainEvidence(r, names) ==
    IF names = <<>> THEN <<>>
    ELSE PushIf(r.headers[Head(names)] \in ContainsVercelDomain,
                Ev("Header", Head(names), 65, "vercel-domain-pattern"))
         \o VercelDomainEvidence(r, Tail(names))

Vercel_check_headers(r) ==
    PushIf(ValIn(r, "server", {"Vercel"}), Ev("Header", "server", 98, "vercel-server-pattern"))
    \o PushIf(ValIn(r, "x-vercel-id", vercel_id_pattern), Ev("Header", "x-vercel-id", 95, "vercel-id-pattern"))
    \o PushIf(ValIn(r, "x-vercel-cache", vercel_cache_pattern),
              Ev("Header", "x-vercel-cache", 90, "vercel-cache-pattern"))
    \o PushIf(Has(r, "x-vercel-deployment-url"),
              Ev("Header", "x-vercel-deployment-url", 85, "vercel-deployment-pattern"))
    \o PushIf(Has(r, "x-vercel-region"), Ev("Header", "x-vercel-region", 75, "vercel-region-pattern"))
    \o PushIf(Has(r, "x-vercel-proxy-signature"),
              Ev("Header", "x-vercel-proxy-signature", 80, "vercel-proxy-pattern"))
    \o PushIf(Has(r, "x-vercel-edge"), Ev("Header", "x-vercel-edge", 70, "vercel-edge-pattern"))
    \o VercelDomainEvidence(r, SetToSeq(DOMAIN r.headers))

Vercel_check_status_codes(r) ==
    PushIf(r.status = 404 /\ Has(r, "x-vercel-id"), Ev("StatusCode", "404", 75, "vercel-404-pattern"))

Vercel_detect(r) == Vercel_check_headers(r) \o Vercel_check_status_codes(r)

(***************************************************************************)
(* providers/mod.rs: the Provider enum and ProviderMetadata                *)
(***************************************************************************)
ProviderNames == {"CloudFlare", "Akamai", "AWS", "Fastly", "Vercel"}

\* DetectionProvider::provider_type of each variant
provider_type(name) ==
    CASE name = "CloudFlare" -> "Both"
      [] name = "Akamai" -> "Both"
      [] name = "AWS" -> "Both"
      [] name = "Fastly" -> "Both"
      [] name = "Vercel" -> "CDN"

\* DetectionProvider::priority of each variant
priority(name) ==
    CASE name = "CloudFlare" -> 100
      [] name = "Akamai" -> 95
      [] name = "AWS" -> 100
      [] name = "Fastly" -> 95
      [] name = "Vercel" -> 90

\* DetectionProvider::enabled: every constructor sets enabled to true
enabled(name) == TRUE

\* ProviderMetadata::from: provider_type as the string the registry matches on
MetadataType(name) ==
    CASE provider_type(name) = "WAF" -> "WAF Only"
      [] provider_type(name) = "CDN" -> "CDN Only"
      [] provider_type(name) = "Both" -> "Both"

\* Provider::detect: each variant returns Ok(evidence); none returns Err
Provider_detect(name, r) ==
    CASE name = "CloudFlare" -> CloudFlare_detect(r)
      [] name = "Akamai" -> Akamai_detect(r)
      [] name = "AWS" -> AWS_detect(r)
      [] name = "Fastly" -> Fastly_detect(r)
      [] name = "Vercel" -> Vercel_detect(r)

(***************************************************************************)
(* The state after construction                                            *)
(***************************************************************************)
\* Option<T>: None is <<>> and Some(x) is <<x>>
None == <<>>

Some(x) == <<x>>

\* a future that has not completed, and one that has completed with a value;
\* failed tells that the analysis inside it returned Err (for join_all, the
\* set of the providers whose detect returned Err)
Pending == [done |-> FALSE, value |-> None, failed |-> FALSE]

Done(x) == [done |-> TRUE, value |-> Some(x), failed |-> FALSE]

\* lines 110-113, 131-134, 153-156: the analysis returned Err and the future yields None
Failed == [done |-> TRUE, value |-> Some(None), failed |-> TRUE]

\* ProviderRegistry::new and a DetectionEngine on which detect has not run
\* ProviderRegistry::new, lines 26-35: both maps empty; no call of
\* register_provider has been made
NewRegistry ==
    [providers |-> [n \in {} |-> 0], provider_metadata |-> [n \in {} |-> 0], calls |-> <<>>]

EngineInit ==
    /\ providers = {}
    /\ registry = NewRegistry
    /\ pc = "idle"
    /\ response = None
    /\ sorted = <<>>
    /\ provider_results = Pending
    /\ timing_result = Pending
    /\ dns_result = Pending
    /\ payload_result = Pending
    /\ detection = None

engine_vars == <<providers, pc, response, sorted, provider_results, timing_result,
                 dns_result, payload_result, detection>>

(***************************************************************************)
(* calculate_confidence applied to Evidence lists of bounded length        *)
(***************************************************************************)
MaxEvidence == 3

\* the Evidence items the lists are made of: one or two of each category, a
\* payload summary above 1.0, a timing item of confidence 0.0 and two items
\* of low confidence among them
EvidencePool ==
    { Ev("Header", "cf-ray", 95, "cf-ray-header"),
      Ev("Header", "x-amz-cf-id", 95, "cloudfront-id-pattern"),
      Ev("Body", "challenge-page-detected", 70, "cf-challenge-body"),
      Ev("StatusCode", "403", 75, "cf-403-status"),
      Ev("DNS", "cname", 95, "dns-cname-cloudflare"),
      Ev("Timing", "", 0, "timing-waf-delay"),
      Ev("Timing", "", 5, "timing-waf-delay"),
      Ev("StatusCode", "429", 10, "cf-429-status"),
      Ev("Payload", "", 350, "payload_detection_cloudflare") }

EvidenceLists == UNION { [1..n -> EvidencePool] : n \in 0..MaxEvidence }

\* bucket names the scorer is called with
ScoredNames == {"CloudFlare", "AWS", "PayloadAnalysis"}

\* names of the response headers the scorer is called with
ScoredHeaderNames == {"cf-ray", "cf-cache-status", "x-amz-cf-id", "x-akamai-transformed-by"}

\* no call of calculate_confidence is in progress
NoCall == [provider |-> "", evidence |-> <<>>, header_names |-> {}, result |-> None]

\* the arguments of one call, before it runs
ScoreInit ==
    /\ EngineInit /\ payload = None /\ timing = None /\ batch = None /\ smoke = None
    /\ \E provider \in ScoredNames, evidence \in EvidenceLists, header_names \in SUBSET ScoredHeaderNames :
            scorer = [provider |-> provider, evidence |-> evidence, header_names |-> header_names,
                      result |-> None]

\* the call of calculate_confidence
Score ==
    /\ scorer.result = None
    /\ scorer' = [scorer EXCEPT !.result =
                    Some(calculate_confidence(scorer.provider, scorer.evidence, scorer.header_names))]
    /\ UNCHANGED <<engine_vars, payload, timing, batch, smoke, registry>>

ScoreNext == Score

SpecScore == ScoreInit /\ [][ScoreNext]_vars

\* the call has returned
Scored == scorer.result # None

\* the ConfidenceResult it returned
ScoreResult == scorer.result[1]

(***************************************************************************)
(* Properties of calculate_confidence (SpecScore)                          *)
(***************************************************************************)
\* C5: the score that calculate_confidence returns lies in [0,1], for every
\* bucket name, every Evidence list and every set of response headers.
C5_ScoreInUnitInterval ==
    Scored => (0 <= ScoreResult.score /\ ScoreResult.score <= Scale)

\* a call whose total exceeds 1.0 before the ceiling and whose score is 1.0
C5_Witness ==
    /\ Scored
    /\ PositiveScore(scorer.evidence) > Scale
    /\ ScoreResult.negative_evidence_count = 0
    /\ ScoreResult.score = Scale

CfRayEvidence == <<Ev("Header", "cf-ray", 95, "cf-ray-header")>>

\* C8: for CloudFlare with one cf-ray Evidence of confidence 0.95, a response
\* that carries x-amz-cf-id scores at most 0.3 times what the same Evidence
\* scores without that header, the AWS marker being counted as a contradiction.
C8_CloudFlarePenalised ==
    (/\ Scored
     /\ scorer.provider = "CloudFlare"
     /\ scorer.evidence = CfRayEvidence
     /\ "x-amz-cf-id" \in scorer.header_names)
    => /\ ScoreResult.negative_evidence_count >= 1
       /\ 10 * ScoreResult.score
            <= 3 * calculate_confidence("CloudFlare", CfRayEvidence,
                                        scorer.header_names \ {"x-amz-cf-id"}).score

\* C9 as stated: with cf-ray and x-amz-cf-id both among the response headers,
\* the AWS score equals the score of the same Evidence with cf-ray absent.
C9_AwsNotPenalised ==
    (/\ Scored
     /\ scorer.provider = "AWS"
     /\ {"cf-ray", "x-amz-cf-id"} \subseteq scorer.header_names)
    => ScoreResult.score
         = calculate_confidence("AWS", scorer.evidence, scorer.header_names \ {"cf-ray"}).score

\* C9 amended: with cf-ray and x-amz-cf-id both among the response headers, the
\* scorer counts cf-ray as one contradiction of AWS; the AWS score is never
\* above the score of the same Evidence with cf-ray absent, and is strictly
\* below it when that score is positive and the AWS score is below 1.0.
C9_AwsPenalised ==
    (/\ Scored
     /\ scorer.provider = "AWS"
     /\ {"cf-ray", "x-amz-cf-id"} \subseteq scorer.header_names)
    => LET without == calculate_confidence("AWS", scorer.evidence, scorer.header_names \ {"cf-ray"})
       IN  /\ ScoreResult.negative_evidence_count = without.negative_evidence_count + 1
           /\ ScoreResult.score <= without.score
           /\ (without.score > 0 /\ ScoreResult.score < Scale)
                 => ScoreResult.score < without.score

\* AWS scored on its x-amz-cf-id Evidence while cf-ray is among the headers
C9_Witness ==
    /\ Scored
    /\ scorer.provider = "AWS"
    /\ scorer.evidence = <<Ev("Header", "x-amz-cf-id", 95, "cloudfront-id-pattern")>>
    /\ scorer.header_names = {"cf-ray", "x-amz-cf-id"}
    /\ ScoreResult.negative_evidence_count = 1
    /\ ScoreResult.score < calculate_confidence("AWS", scorer.evidence, {"x-amz-cf-id"}).score

(***************************************************************************)
(* payload/mod.rs: analyze_blocked_payloads and to_evidence                *)
(***************************************************************************)
\* key.to_lowercase().contains(...) and value.to_lowercase().contains(...),
\* over the header names and values of the model
KeyContainsCf ==
    {"cf-ray", "cf-cache-status", "cf-request-id", "cf-connecting-ip", "cf-ipcountry", "cf-visitor",
     "x-amz-cf-id", "x-amz-cf-pop"}

ValueContainsCloudflare == {"cloudflare"}

KeyContainsXAmz == {"x-amz-cf-id", "x-amz-cf-pop", "x-amz-request-id", "x-amzn-requestid"}

ValueContainsAws == {}

KeyContainsAkamai == {"x-akamai-transformed", "x-akamai-transformed-by"}

ValueContainsAkamai == {"AkamaiGHost"}

\* lines 352-373; no header of the model names Sucuri or WebZealots
identify_waf_from_header(key, value) ==
    IF key \in KeyContainsCf \/ value \in ValueContainsCloudflare THEN Some("CloudFlare")
    ELSE IF key \in KeyContainsXAmz \/ value \in ValueContainsAws THEN Some("AWS WAF")
    ELSE IF key \in KeyContainsAkamai \/ value \in ValueContainsAkamai THEN Some("Akamai")
    ELSE None

\* body.to_lowercase().contains("cloudflare") || ... contains("cf-ray")
BodyContainsCloudflare == {ChallengeBody}

\* lines 376-396; no body of the model names Akamai, AWS WAF, ModSecurity or F5
identify_waf_from_body(body) ==
    IF body \in BodyContainsCloudflare THEN Some("CloudFlare") ELSE None

\* the names analyze_blocked_payloads can enter into waf_indicators
WafNames == {"CloudFlare", "AWS WAF", "Akamai", "Generic WAF", "ModSecurity"}

\* lines 318-336: what one blocked payload adds to the entry of a WAF name
Indication(blocked, waf) ==
    30 * Cardinality({ k \in DOMAIN blocked.response_headers :
                          identify_waf_from_header(k, blocked.response_headers[k]) = Some(waf) })
    + (IF identify_waf_from_body(blocked.response_body_sample) = Some(waf) THEN 20 ELSE 0)
    + (IF blocked.response_status = 403 /\ waf = "Generic WAF" THEN 10 ELSE 0)
    + (IF blocked.response_status = 406 /\ waf = "ModSecurity" THEN 15 ELSE 0)

RECURSIVE Indications(_, _)
Indications(blocked_payloads, waf) ==
    IF blocked_payloads = <<>> THEN 0
    ELSE Indication(Head(blocked_payloads), waf) + Indications(Tail(blocked_payloads), waf)

\* line 339: (len * 0.1).min(0.5)
block_confidence(blocked_payloads) == Min(10 * Len(blocked_payloads), 50)

\* lines 339-342: the entry of a WAF name after the block confidence is added
waf_indicator(blocked_payloads, waf) ==
    Indications(blocked_payloads, waf) + block_confidence(blocked_payloads)

\* analyze_blocked_payloads: the (detected_waf, confidence) pairs it can return;
\* max_by over a HashMap returns one of the maximal entries
analyze_blocked_payloads(blocked_payloads) ==
    LET keys == { w \in WafNames : Indications(blocked_payloads, w) > 0 }
    IN  IF blocked_payloads = <<>> THEN { [detected_waf |-> None, confidence |-> 0] }
        ELSE IF keys = {} THEN { [detected_waf |-> Some("Unknown WAF"), confidence |-> 30] }
        ELSE { [detected_waf |-> Some(w), confidence |-> waf_indicator(blocked_payloads, w)] :
                 w \in { k \in keys : \A o \in keys :
                            waf_indicator(blocked_payloads, o) <= waf_indicator(blocked_payloads, k) } }

\* format!("payload_detection_{}", waf_name.to_lowercase().replace(" ", "_"))
PayloadSignature(waf_name) ==
    CASE waf_name = "CloudFlare" -> "payload_detection_cloudflare"
      [] waf_name = "AWS WAF" -> "payload_detection_aws_waf"
      [] waf_name = "Akamai" -> "payload_detection_akamai"
      [] waf_name = "Generic WAF" -> "payload_detection_generic_waf"
      [] waf_name = "ModSecurity" -> "payload_detection_modsecurity"
      [] waf_name = "Unknown WAF" -> "payload_detection_unknown_waf"

\* format!("blocked_{:?}_payload", category).to_lowercase()
BlockedSignature(category) ==
    CASE category = "XSS" -> "blocked_xss_payload"
      [] category = "SQLInjection" -> "blocked_sqlinjection_payload"
      [] category = "CommandInjection" -> "blocked_commandinjection_payload"
      [] category = "PathTraversal" -> "blocked_pathtraversal_payload"

\* to_evidence: the summary Evidence, then one Evidence for each of the first
\* three blocked payloads
to_evidence(analysis) ==
    IF analysis.detected_waf = None THEN <<>>
    ELSE <<Ev("Payload", "", analysis.confidence, PayloadSignature(analysis.detected_waf[1]))>>
         \o [i \in 1..Min(Len(analysis.blocked_payloads), 3) |->
                Ev("Payload", "", 70, BlockedSignature(analysis.blocked_payloads[i].category))]

(***************************************************************************)
(* The payload analysis applied to lists of blocked payloads               *)
(***************************************************************************)
MaxBlocked == 3

Blocked(category, status, headers, body) ==
    [category |-> category, response_status |-> status,
     response_headers |-> headers, response_body_sample |-> body]

\* the blocked responses of the model (test_single_payload, lines 182-209);
\* a body of the model is shorter than the 200 characters of the sample
BlockedPool ==
    { Blocked("XSS", 403, Merge(Hdr("cf-ray", RayId), Hdr("server", "cloudflare")), ChallengeBody),
      Blocked("XSS", 403, Hdr("x-amz-cf-id", CfId), PlainBody),
      Blocked("SQLInjection", 403, NoHeaders, DeniedBody),
      Blocked("SQLInjection", 429, Hdr("x-akamai-transformed", AkamaiTransformed), DeniedBody),
      Blocked("CommandInjection", 406, NoHeaders, PlainBody),
      Blocked("PathTraversal", 0, NoHeaders, "Connection refused") }

\* get_test_payloads: the categories in the order they are tested, and the
\* number of payloads of each
CategoryRank(category) ==
    CASE category = "XSS" -> 1
      [] category = "SQLInjection" -> 2
      [] category = "CommandInjection" -> 3
      [] category = "PathTraversal" -> 4

PayloadsOf(category) ==
    CASE category = "XSS" -> 3
      [] category = "SQLInjection" -> 3
      [] category = "CommandInjection" -> 2
      [] category = "PathTraversal" -> 2

\* test_payloads: the blocked payloads are pushed in the order of the payloads
BlockedLists ==
    { s \in UNION { [1..n -> BlockedPool] : n \in 0..MaxBlocked } :
        /\ \A i, j \in DOMAIN s : i < j => CategoryRank(s[i].category) <= CategoryRank(s[j].category)
        /\ \A c \in {"XSS", "SQLInjection", "CommandInjection", "PathTraversal"} :
              Cardinality({ i \in DOMAIN s : s[i].category = c }) <= PayloadsOf(c) }

PayloadInit ==
    /\ EngineInit /\ scorer = NoCall /\ timing = None /\ batch = None /\ smoke = None
    /\ \E blocked_payloads \in BlockedLists :
          payload = [blocked_payloads |-> blocked_payloads, analysis |-> None, evidence |-> None]

\* PayloadAnalyzer::analyze, step 3
AnalyzeBlocked ==
    /\ payload.analysis = None
    /\ \E r \in analyze_blocked_payloads(payload.blocked_payloads) :
          payload' = [payload EXCEPT !.analysis =
                        Some([detected_waf |-> r.detected_waf, confidence |-> r.confidence,
                              blocked_payloads |-> payload.blocked_payloads])]
    /\ UNCHANGED <<engine_vars, scorer, timing, batch, smoke, registry>>

\* detect_all, line 146
ToEvidence ==
    /\ payload.analysis # None
    /\ payload.evidence = None
    /\ payload' = [payload EXCEPT !.evidence = Some(to_evidence(payload.analysis[1]))]
    /\ UNCHANGED <<engine_vars, scorer, timing, batch, smoke, registry>>

PayloadNext == AnalyzeBlocked \/ ToEvidence

SpecPayload == PayloadInit /\ [][PayloadNext]_vars

\* C6, first half: every Evidence that to_evidence emits, the summary among
\* them, has a confidence in [0,1].
C6_PayloadConfidenceInUnitInterval ==
    payload.evidence # None =>
        \A i \in DOMAIN payload.evidence[1] :
            0 <= payload.evidence[1][i].confidence /\ payload.evidence[1][i].confidence <= 100

(***************************************************************************)
(* timing/mod.rs: TimingAnalyzer with TimingConfig::default()              *)
(***************************************************************************)
min_waf_delay_ms == 50

max_waf_delay_ms == 200

RECURSIVE SumSq(_, _)
\* the sum of (time - mean)^2 over the times
SumSq(times, mean) ==
    IF times = <<>> THEN 0
    ELSE (Head(times) - mean) * (Head(times) - mean) + SumSq(Tail(times), mean)

\* floor(sqrt(x)) for 0 <= x < 100 * 100
Isqrt(x) == CHOOSE r \in 0..100 : r * r <= x /\ x < (r + 1) * (r + 1)

\* u64 average of a Vec<u64>: sum / len, truncated
Average(times) == SeqSum(times) \div Len(times)

\* calculate_variance: min(std_dev / mean, 1.0), in hundredths, rounded down.
\* std_dev / mean = sqrt(S / (n * mean^2)) with S the sum of squared differences.
calculate_variance(times, mean) ==
    IF Len(times) <= 1 \/ mean = 0 THEN 0
    ELSE LET S == SumSq(times, mean)
             d == Len(times) * mean * mean
         IN  IF S >= d THEN 100 ELSE Isqrt((S * (100 * 100)) \div d)

\* baseline_comparison, lines 128-169.  The confidence is in hundredths, rounded
\* up, so it is 0 exactly when the f64 is 0.0:
\*   delay_score * 0.7 + consistency_score * 0.3
\*     = (21000 * (delay - min) / (max - min) + 45 * (200 - bvar - tvar)) / 30000
baseline_comparison(baseline_times, test_times) ==
    LET baseline_avg == Average(baseline_times)
        test_avg == Average(test_times)
        delay_amount == IF test_avg > baseline_avg THEN test_avg - baseline_avg ELSE 0
        delay_detected == delay_amount >= min_waf_delay_ms /\ delay_amount <= max_waf_delay_ms
        bvar == calculate_variance(baseline_times, baseline_avg)
        tvar == calculate_variance(test_times, test_avg)
        num == (21000 * (delay_amount - min_waf_delay_ms)) \div (max_waf_delay_ms - min_waf_delay_ms)
                 + 45 * (200 - bvar - tvar)
    IN  [delay_detected |-> delay_detected,
         delay_amount_ms |-> delay_amount,
         confidence |-> IF delay_detected THEN Min((num + 299) \div 300, 95) ELSE 0]

\* pattern_analysis, lines 172-210; the confidence in hundredths, rounded up
pattern_analysis(all_times) ==
    LET avg_time == Average(all_times)
        variance == calculate_variance(all_times, avg_time)
        delay_detected == avg_time >= min_waf_delay_ms /\ avg_time <= 1000 /\ variance < 30
        time_score == IF avg_time <= max_waf_delay_ms THEN 80 ELSE 40
    IN  [delay_detected |-> delay_detected,
         delay_amount_ms |-> IF delay_detected THEN avg_time ELSE 0,
         confidence |-> IF delay_detected
                        THEN Min((time_score * 60 + (100 - variance) * 40 + 99) \div 100, 90)
                        ELSE 0]

\* TimingAnalyzer::analyze: a measurement is Some(times), or None when one of
\* its requests failed, and then its analysis is skipped
TimingAnalyzer_analyze(baseline_times, test_times, all_times) ==
    (IF baseline_times # None /\ test_times # None
        /\ baseline_comparison(baseline_times[1], test_times[1]).delay_detected
     THEN <<Ev("Timing", "", baseline_comparison(baseline_times[1], test_times[1]).confidence,
               "timing-waf-delay")>>
     ELSE <<>>)
    \o (IF all_times # None /\ pattern_analysis(all_times[1]).delay_detected
        THEN <<Ev("Timing", "", pattern_analysis(all_times[1]).confidence, "timing-pattern-analysis")>>
        ELSE <<>>)

(***************************************************************************)
(* The timing analysis applied to measured response times                  *)
(***************************************************************************)
\* baseline_requests and test_requests of TimingConfig::default()
baseline_requests == 3

test_requests == 3

\* response times, in milliseconds, of the baseline and of the test requests
BaselineSamples == {10, 100}

TestSamples == {10, 59, 60, 250}

\* the six response times of pattern_analysis
PatternRuns ==
    { <<10, 10, 10, 10, 10, 10>>, <<100, 100, 100, 100, 100, 100>>,
      <<60, 60, 60, 60, 60, 70>>, <<10, 100, 10, 100, 10, 100>>,
      <<300, 300, 300, 300, 300, 310>> }

TimingInit ==
    /\ EngineInit /\ scorer = NoCall /\ payload = None /\ batch = None /\ smoke = None
    /\ \E baseline_times \in {None} \cup { Some(s) : s \in [1..baseline_requests -> BaselineSamples] },
          test_times \in {None} \cup { Some(s) : s \in [1..test_requests -> TestSamples] },
          all_times \in {None} \cup { Some(s) : s \in PatternRuns } :
            /\ (baseline_times = None => test_times = None)
            /\ timing = [baseline_times |-> baseline_times, test_times |-> test_times,
                         all_times |-> all_times, evidence |-> None]

\* TimingAnalyzer::analyze on the measured times
AnalyzeTiming ==
    /\ timing.evidence = None
    /\ timing' = [timing EXCEPT !.evidence =
                    Some(TimingAnalyzer_analyze(timing.baseline_times, timing.test_times, timing.all_times))]
    /\ UNCHANGED <<engine_vars, scorer, payload, batch, smoke, registry>>

TimingNext == AnalyzeTiming

SpecTiming == TimingInit /\ [][TimingNext]_vars

\* the timing Evidence of the f64 that is exactly 0.0: a delay of exactly
\* min_waf_delay_ms between two measurements whose variances both reach 1.0
ZeroTimingEvidence == TimingAnalyzer_analyze(Some(<<10, 10, 100>>), Some(<<10, 10, 250>>), None)

\* C6, second half: the confidence of every timing Evidence is in [0,1]
C6_TimingConfidenceInUnitInterval ==
    timing.evidence # None =>
        \A i \in DOMAIN timing.evidence[1] :
            0 <= timing.evidence[1][i].confidence /\ timing.evidence[1][i].confidence <= 100

(***************************************************************************)
(* dns/mod.rs: DnsAnalyzer                                                 *)
(***************************************************************************)
\* CNAME records of the model
CloudFlareCname == "example.com.cdn.cloudflare.net"

CloudFrontCname == "d1234abcd.cloudfront.net"

OriginCname == "origin.example.com"

\* DnsAnalyzer::new: <<provider, the CNAMEs of the model the regex matches, confidence>>
provider_patterns ==
    << <<"CloudFlare", {CloudFlareCname}, 98>>, <<"CloudFlare", {}, 95>>, <<"CloudFlare", {}, 90>>,
       <<"AWS", {CloudFrontCname}, 98>>, <<"AWS", {CloudFrontCname}, 99>>, <<"AWS", {}, 95>>,
       <<"Fastly", {}, 98>>, <<"Fastly", {}, 95>>, <<"Fastly", {}, 96>>,
       <<"Akamai", {}, 98>>, <<"Akamai", {}, 95>>, <<"Akamai", {}, 96>>, <<"Akamai", {}, 94>>,
       <<"Vercel", {}, 99>>, <<"Vercel", {}, 96>>,
       <<"KeyCDN", {}, 98>>, <<"MaxCDN", {}, 98>> >>

\* format!("dns-cname-{}", provider.to_lowercase())
DnsSignature(provider) ==
    CASE provider = "CloudFlare" -> "dns-cname-cloudflare"
      [] provider = "AWS" -> "dns-cname-aws"
      [] provider = "Fastly" -> "dns-cname-fastly"
      [] provider = "Akamai" -> "dns-cname-akamai"
      [] provider = "Vercel" -> "dns-cname-vercel"
      [] provider = "KeyCDN" -> "dns-cname-keycdn"
      [] provider = "MaxCDN" -> "dns-cname-maxcdn"

RECURSIVE MatchPatterns(_, _)
\* lines 176-193, for one CNAME: an Evidence for each pattern that matches it
MatchPatterns(cname, patterns) ==
    IF patterns = <<>> THEN <<>>
    ELSE PushIf(cname \in Head(patterns)[2],
                Ev("DNS", "cname", Head(patterns)[3], DnsSignature(Head(patterns)[1])))
         \o MatchPatterns(cname, Tail(patterns))

RECURSIVE DnsAnalyzer_analyze(_)
\* DnsAnalyzer::analyze once resolve_cname has returned the records
DnsAnalyzer_analyze(cname_records) ==
    IF cname_records = <<>> THEN <<>>
    ELSE MatchPatterns(Head(cname_records), provider_patterns) \o DnsAnalyzer_analyze(Tail(cname_records))

(***************************************************************************)
(* registry/mod.rs: detect_all, from the join to the DetectionResult       *)
(***************************************************************************)
SyntheticSources == {"TimingAnalysis", "DnsAnalysis", "PayloadAnalysis"}

\* HashMap::insert
MapInsert(m, k, v) == [n \in DOMAIN m \cup {k} |-> IF n = k THEN v ELSE m[n]]

\* lines 187-194 with nothing inserted: the evidence map starts empty
evidence_map_empty(registered) == [n \in {} |-> <<>>]

\* lines 187-194: an empty list for every registered provider and synthetic source
evidence_map_init(registered) == [n \in registered \cup SyntheticSources |-> <<>>]

\* the "CDN Only" arm updating the waf slot as well
competes_for_waf_any(provider_type_str) == provider_type_str \in {"WAF Only", "CDN Only", "Both"}

\* the `_ => {}` arm of line 260 and the missing metadata of line 223 taken
\* for a WAF: every result that is not a CDN competes for the waf slot
competes_for_waf_unless_cdn(provider_type_str) == provider_type_str # "CDN Only"

\* lines 225 and 243: the provider types whose score competes for the waf slot
competes_for_waf(provider_type_str) == provider_type_str \in {"WAF Only", "Both"}

\* lines 234 and 243: the provider types whose score competes for the cdn slot
competes_for_cdn(provider_type_str) == provider_type_str \in {"CDN Only", "Both"}

\* the best confidence is not raised when a slot is taken
best_confidence_kept(final_confidence, best_confidence) == best_confidence

\* lines 227, 236, 246, 253: best_*_confidence = final_confidence
best_confidence_update(final_confidence, best_confidence) == final_confidence

\* lines 226-231 and 245-250: the waf slot after one scored result
TakeWaf(acc, takes, name, final_confidence) ==
    IF takes
    THEN [acc EXCEPT !.best_waf = Some([name |-> name, confidence |-> final_confidence]),
                     !.best_waf_confidence = best_confidence_update(final_confidence, @)]
    ELSE acc

\* lines 235-240 and 252-257: the cdn slot after one scored result
TakeCdn(acc, takes, name, final_confidence) ==
    IF takes
    THEN [acc EXCEPT !.best_cdn = Some([name |-> name, confidence |-> final_confidence]),
                     !.best_cdn_confidence = best_confidence_update(final_confidence, @)]
    ELSE acc

\* lines 215-262: provider_scores and the slots for a result with evidence;
\* type is the provider_type of the metadata found for the name
ScoreProvider(acc, name, type, final_confidence) ==
    TakeCdn(TakeWaf([acc EXCEPT !.provider_scores = MapInsert(@, name, final_confidence)],
                    competes_for_waf(type) /\ final_confidence > acc.best_waf_confidence,
                    name, final_confidence),
            competes_for_cdn(type) /\ final_confidence > acc.best_cdn_confidence,
            name, final_confidence)

\* line 204: evidence_map.insert(name, evidence)
InsertEvidence(acc, name, evidence) ==
    [acc EXCEPT !.evidence_map = MapInsert(@, name, evidence)]

\* lines 200-264, the body of the loop for one result
ScoreResultStep(acc, result, registered, header_names) ==
    IF result.evidence = <<>> THEN InsertEvidence(acc, result.name, result.evidence)
    ELSE ScoreProvider(InsertEvidence(acc, result.name, result.evidence), result.name,
                       IF result.name \in registered THEN MetadataType(result.name) ELSE "no metadata",
                       calculate_confidence(result.name, result.evidence, header_names).score)

RECURSIVE ScoreResults(_, _, _, _)
\* lines 200-264, the loop over results.into_iter().flatten()
ScoreResults(acc, results, registered, header_names) ==
    IF results = <<>> THEN acc
    ELSE ScoreResults(ScoreResultStep(acc, Head(results), registered, header_names),
                      Tail(results), registered, header_names)

\* Iterator::flatten over a sequence of Options
RECURSIVE Flatten(_)
Flatten(options) ==
    IF options = <<>> THEN <<>> ELSE Head(options) \o Flatten(Tail(options))

\* lines 169-178: the provider results, then each analysis result that is Some
JoinedResults(joined_providers, joined_timing, joined_dns, joined_payload) ==
    joined_providers \o (IF joined_timing # None THEN <<joined_timing>> ELSE <<>>)
                     \o (IF joined_dns # None THEN <<joined_dns>> ELSE <<>>)
                     \o (IF joined_payload # None THEN <<joined_payload>> ELSE <<>>)

\* lines 180-198: the maps and the slots before the loop
LoopStart(registered) ==
    [provider_scores |-> [n \in {} |-> 0],
     evidence_map |-> evidence_map_init(registered),
     best_waf |-> None, best_cdn |-> None,
     best_waf_confidence |-> 0, best_cdn_confidence |-> 0]

\* lines 275-283: the DetectionResult
DetectionResult(acc) ==
    [detected_waf |-> acc.best_waf,
     detected_cdn |-> acc.best_cdn,
     provider_scores |-> acc.provider_scores,
     evidence_map |-> acc.evidence_map]

\* lines 169-284: the DetectionResult built from the four joined outcomes
BuildDetectionResult(registered, header_names, joined_providers, joined_timing, joined_dns, joined_payload) ==
    DetectionResult(
        ScoreResults(LoopStart(registered),
                     Flatten(JoinedResults(joined_providers, joined_timing, joined_dns, joined_payload)),
                     registered, header_names))

\* lines 60-79: the enabled providers in the iteration order of the DashMap,
\* then a stable sort by priority, descending: every order of the enabled
\* providers in which the priorities never increase
SortedOrders(registered) ==
    LET en == { n \in registered : enabled(n) }
    IN  { s \in Perms(en) : \A i, j \in DOMAIN s : i < j => priority(s[i]) >= priority(s[j]) }

(***************************************************************************)
(* The engine: register_provider, DetectionEngine::detect, detect_all      *)
(***************************************************************************)
\* the responses the primary probe can receive
Headers3(a, b, c) == Merge(a, Merge(b, c))

\* a response of CloudFront in front of a Varnish cache
CloudFrontOverVarnish ==
    Resp(200, Merge(Hdr("x-cache", HitFromCloudFront), Hdr("via", ViaVarnish)), PlainBody)

\* a response of an origin server without WAF or CDN in front of it
NginxExpress ==
    Resp(200, Merge(Hdr("server", "nginx/1.18.0"), Hdr("x-powered-by", "Express")), PlainBody)

Responses ==
    { Resp(200, NoHeaders, PlainBody),
      CloudFrontOverVarnish,
      NginxExpress,
      Resp(200, Headers3(Hdr("cf-ray", RayId), Hdr("cf-cache-status", "HIT"), Hdr("server", "cloudflare")),
           PlainBody),
      Resp(200, Merge(Hdr("cf-ray", RayId), Hdr("x-amz-cf-id", CfId)), PlainBody),
      Resp(200, Merge(Hdr("x-check-cacheable", "YES"), Hdr("x-cache", "HIT")), PlainBody),
      Resp(200, Merge(Hdr("server", "Vercel"), Hdr("x-vercel-id", VercelId)), PlainBody),
      Resp(403, Hdr("x-akamai-transformed", AkamaiTransformed), DeniedBody),
      Resp(200, Merge(Headers3(Hdr("server", "cloudflare"), Hdr("cf-connecting-ip", "203.0.113.7"),
                               Hdr("cf-ipcountry", "US")),
                      Merge(Hdr("x-amz-cf-id", CfId), Hdr("x-amz-cf-pop", PopId))), PlainBody),
      Resp(403, NoHeaders, ChallengeBody),
      Resp(200, Merge(Hdr("via", ViaVarnish), Hdr("fastly-restarts", "0")), PlainBody) }

\* what the timing future can measure: <<baseline_times, test_times, all_times>>
TimingRuns ==
    { <<None, None, None>>,
      <<Some(<<10, 10, 100>>), Some(<<10, 10, 250>>), Some(<<10, 10, 10, 10, 10, 10>>)>>,
      <<Some(<<10, 10, 10>>), Some(<<60, 60, 250>>), Some(<<100, 100, 100, 100, 100, 100>>)>> }

\* what resolve_cname can return: an error (None) or the CNAME records
DnsRuns == { None, Some(<<>>), Some(<<CloudFlareCname>>), Some(<<CloudFrontCname>>) }

\* what the payload probing can observe: an error on the baseline request
\* (None) or the list of the blocked payloads
PayloadRuns ==
    { None, Some(<<>>),
      Some(<<Blocked("XSS", 403, Merge(Hdr("cf-ray", RayId), Hdr("server", "cloudflare")), ChallengeBody),
             Blocked("SQLInjection", 403, Merge(Hdr("cf-ray", RayId), Hdr("server", "cloudflare")),
                     ChallengeBody)>>) }

\* lines 98-159: a synthetic future yields Some((name, evidence)) when its
\* analysis returned a non-empty Evidence list
SyntheticResult(name, evidence) ==
    IF evidence = <<>> THEN None ELSE Some([name |-> name, evidence |-> evidence])

Init ==
    EngineInit /\ scorer = NoCall /\ payload = None /\ timing = None /\ batch = None /\ smoke = None

\* register_provider: a name that is registered already is refused
RegisterProvider(name) ==
    /\ pc = "idle"
    /\ providers' = providers \cup {name}
    /\ UNCHANGED <<pc, response, sorted, provider_results, timing_result, dns_result,
                   payload_result, detection, scorer, payload, timing, batch, smoke, registry>>

\* DetectionEngine::detect is called: the GET of the primary probe is sent
Detect ==
    /\ pc = "idle"
    /\ pc' = "get"
    /\ UNCHANGED <<providers, response, sorted, provider_results, timing_result, dns_result,
                   payload_result, detection, scorer, payload, timing, batch, smoke, registry>>

\* the GET fails: engine/mod.rs line 36, http_client.get(url).await?
GetFails ==
    /\ pc = "get"
    /\ detection' = Some([ok |-> FALSE])
    /\ pc' = "returned"
    /\ UNCHANGED <<providers, response, sorted, provider_results, timing_result, dns_result,
                   payload_result, scorer, payload, timing, batch, smoke, registry>>

\* the GET succeeds and detect_all runs up to the join: registry lines 60-95
GetSucceeds ==
    /\ pc = "get"
    /\ \E r \in Responses : response' = Some(r)
    /\ \E s \in SortedOrders(providers) : sorted' = s
    /\ pc' = "join"
    /\ UNCHANGED <<providers, provider_results, timing_result, dns_result,
                   payload_result, detection, scorer, payload, timing, batch, smoke, registry>>

\* the Err of Provider::detect taken for Ok: the future yields the evidence
ProviderFutureIgnoresErr(name, r, fails) ==
    Some([name |-> name, evidence |-> Provider_detect(name, r)])

\* lines 86-92: the future of one provider yields Some((name, evidence)) when
\* Provider::detect returned Ok(evidence) and None when it returned Err
ProviderFuture(name, r, fails) ==
    IF fails THEN None ELSE Some([name |-> name, evidence |-> Provider_detect(name, r)])

\* the sets of providers whose detect returns Err in one detection: none, any
\* one of them, or all of them
FailingSets(names) == {{}} \cup { {n} : n \in names } \cup {names}

\* join_all(futures): each provider future runs to completion when polled;
\* failing are the providers whose detect returns Err
JoinProviders ==
    /\ pc = "join"
    /\ ~provider_results.done
    /\ \E failing \in FailingSets({ sorted[i] : i \in DOMAIN sorted }) :
          provider_results' =
             [Done([i \in DOMAIN sorted |-> ProviderFuture(sorted[i], response[1], sorted[i] \in failing)])
                EXCEPT !.failed = failing]
    /\ UNCHANGED <<providers, pc, response, sorted, timing_result, dns_result,
                   payload_result, detection, scorer, payload, timing, batch, smoke, registry>>

\* timing_future completes
TimingCompletes ==
    /\ pc = "join"
    /\ ~timing_result.done
    /\ \E m \in TimingRuns :
          timing_result' = Done(SyntheticResult("TimingAnalysis", TimingAnalyzer_analyze(m[1], m[2], m[3])))
    /\ UNCHANGED <<providers, pc, response, sorted, provider_results, dns_result,
                   payload_result, detection, scorer, payload, timing, batch, smoke, registry>>

\* dns_future completes
DnsCompletes ==
    /\ pc = "join"
    /\ ~dns_result.done
    /\ \E c \in DnsRuns :
          dns_result' = IF c = None THEN Failed
                        ELSE Done(SyntheticResult("DnsAnalysis", DnsAnalyzer_analyze(c[1])))
    /\ UNCHANGED <<providers, pc, response, sorted, provider_results, timing_result,
                   payload_result, detection, scorer, payload, timing, batch, smoke, registry>>

\* payload_future completes
PayloadCompletes ==
    /\ pc = "join"
    /\ ~payload_result.done
    /\ \E b \in PayloadRuns :
          \E r \in (IF b = None THEN {None} ELSE { Some(a) : a \in analyze_blocked_payloads(b[1]) }) :
             payload_result' =
                IF r = None THEN Failed
                ELSE Done(SyntheticResult("PayloadAnalysis",
                             to_evidence([detected_waf |-> r[1].detected_waf,
                                          confidence |-> r[1].confidence,
                                          blocked_payloads |-> b[1]])))
    /\ UNCHANGED <<providers, pc, response, sorted, provider_results, timing_result,
                   dns_result, detection, scorer, payload, timing, batch, smoke, registry>>

\* what the code after the join holds for a future: its output, and nothing
\* for a future that was not awaited to its end
Output(future) == IF future.done THEN future.value[1] ELSE None

\* the join ready as soon as join_all(futures) is: the three analysis futures
\* are not awaited
join_all_ready(p, t, d, y) == p.done

\* lines 162-167: join4(..).await is ready when its four futures have completed
join4_ready(p, t, d, y) == p.done /\ t.done /\ d.done /\ y.done

\* join4 is ready: registry lines 169-284, and detect returns what detect_all returned
DetectAllReturns ==
    /\ pc = "join"
    /\ join4_ready(provider_results, timing_result, dns_result, payload_result)
    /\ detection' = Some([ok |-> TRUE,
                          result |-> BuildDetectionResult(providers, DOMAIN response[1].headers,
                                        provider_results.value[1], Output(timing_result),
                                        Output(dns_result), Output(payload_result))])
    /\ pc' = "returned"
    /\ UNCHANGED <<providers, response, sorted, provider_results, timing_result, dns_result,
                   payload_result, scorer, payload, timing, batch, smoke, registry>>

\* the caller has taken the result; the engine is ready for the next call
Release ==
    /\ pc = "returned"
    /\ pc' = "idle"
    /\ response' = None
    /\ sorted' = <<>>
    /\ provider_results' = Pending
    /\ timing_result' = Pending
    /\ dns_result' = Pending
    /\ payload_result' = Pending
    /\ detection' = None
    /\ UNCHANGED <<providers, scorer, payload, timing, batch, smoke, registry>>

Next ==
    \/ \E name \in ProviderNames : RegisterProvider(name)
    \/ Detect
    \/ GetFails
    \/ GetSucceeds
    \/ JoinProviders
    \/ TimingCompletes
    \/ DnsCompletes
    \/ PayloadCompletes
    \/ DetectAllReturns
    \/ Release

Spec == Init /\ [][Next]_vars

(***************************************************************************)
(* Properties of the DetectionResult (Spec)                                *)
(***************************************************************************)
\* detect has returned Ok(result)
Returned == pc = "returned" /\ detection # None /\ detection[1].ok

Result == detection[1].result

\* the score of a name in provider_scores; a name without an entry has none, 0
ScoreOf(name) == IF name \in DOMAIN Result.provider_scores THEN Result.provider_scores[name] ELSE 0

\* the enabled registered providers that are eligible for each slot
WafEligible == { n \in providers : enabled(n) /\ provider_type(n) \in {"WAF", "Both"} }

CdnEligible == { n \in providers : enabled(n) /\ provider_type(n) \in {"CDN", "Both"} }

\* C1: in every DetectionResult the waf slot, if set, names a provider of kind
\* WAF or Both, and the cdn slot, if set, names a provider of kind CDN or Both.
C1_SlotKinds ==
    Returned =>
        /\ Result.detected_waf # None =>
              /\ Result.detected_waf[1].name \in providers
              /\ provider_type(Result.detected_waf[1].name) \in {"WAF", "Both"}
        /\ Result.detected_cdn # None =>
              /\ Result.detected_cdn[1].name \in providers
              /\ provider_type(Result.detected_cdn[1].name) \in {"CDN", "Both"}

\* the CDN-only provider is the only one that scored: it holds the cdn slot
\* and the waf slot stays unset
C1_Witness ==
    /\ Returned
    /\ Result.detected_cdn # None
    /\ Result.detected_cdn[1].name = "Vercel"
    /\ ScoreOf("Vercel") > 0
    /\ Result.detected_waf = None

\* one slot of C2: set exactly when an eligible provider scored above 0, and
\* then held by an eligible provider of maximal score, with that very score
SlotIsArgmax(slot, eligible) ==
    /\ slot # None <=> \E n \in eligible : ScoreOf(n) > 0
    /\ slot # None =>
          /\ slot[1].name \in eligible
          /\ slot[1].name \in DOMAIN Result.provider_scores
          /\ slot[1].confidence = Result.provider_scores[slot[1].name]
          /\ \A n \in eligible : ScoreOf(n) <= slot[1].confidence

\* C2: the waf slot is set iff some enabled provider of kind WAF or Both has a
\* score above 0, and then names a provider of maximal score among them and
\* carries that provider's provider_scores value; likewise the cdn slot.
C2_SlotsAreArgmax ==
    Returned =>
        /\ SlotIsArgmax(Result.detected_waf, WafEligible)
        /\ SlotIsArgmax(Result.detected_cdn, CdnEligible)

\* a Both provider holds both slots with one score while another eligible
\* provider, scored after it or before it, has a lower positive score
C2_Witness ==
    /\ Returned
    /\ Result.detected_waf # None /\ Result.detected_cdn # None
    /\ Result.detected_waf[1] = Result.detected_cdn[1]
    /\ provider_type(Result.detected_waf[1].name) = "Both"
    /\ \E n \in WafEligible : 0 < ScoreOf(n) /\ ScoreOf(n) < Result.detected_waf[1].confidence
    /\ sorted[Len(sorted)] # Result.detected_waf[1].name

\* the provider names in lexicographic (byte) order
NameRank(name) ==
    CASE name = "AWS" -> 1
      [] name = "Akamai" -> 2
      [] name = "CloudFlare" -> 3
      [] name = "Fastly" -> 4
      [] name = "Vercel" -> 5

\* the winner of a slot precedes every other eligible provider of the same
\* score: by priority, and by name when the priorities are equal
WinsTies(slot, eligible) ==
    slot # None =>
        \A n \in eligible \ {slot[1].name} :
            ScoreOf(n) = slot[1].confidence =>
                \/ priority(slot[1].name) > priority(n)
                \/ priority(slot[1].name) = priority(n) /\ NameRank(slot[1].name) < NameRank(n)

\* C3: when eligible providers share the maximal score of a slot, the slot goes
\* to the one of higher priority and, at equal priority, to the name that is
\* lexicographically first, whatever the iteration order of the registry.
C3_TieBreak ==
    Returned =>
        /\ WinsTies(Result.detected_waf, WafEligible)
        /\ WinsTies(Result.detected_cdn, CdnEligible)

\* C4: the evidence_map of every DetectionResult has a key for every registered
\* provider and for each of the three synthetic sources; a source that
\* observed nothing maps to the empty list.
C4_EvidenceMapKeys ==
    Returned =>
        /\ providers \cup SyntheticSources \subseteq DOMAIN Result.evidence_map
        /\ \A n \in SyntheticSources :
              n \notin DOMAIN Result.provider_scores => Result.evidence_map[n] = <<>>
        /\ \A i \in DOMAIN sorted :
              Result.evidence_map[sorted[i]] =
                 (IF provider_results.value[1][i] = None THEN <<>>
                  ELSE Provider_detect(sorted[i], response[1]))

\* a result in which one registered provider matched, another matched nothing
\* and no synthetic source reported anything
C4_Witness ==
    /\ Returned
    /\ \E n \in providers : Result.evidence_map[n] = <<>>
    /\ \E n \in providers : Result.evidence_map[n] # <<>>
    /\ \A n \in SyntheticSources : Result.evidence_map[n] = <<>>

\* C7: in a DetectionResult the score of a source is 0 if and only if its
\* Evidence list is empty.
C7_ZeroScoreIffNoEvidence ==
    Returned =>
        \A n \in DOMAIN Result.evidence_map : (ScoreOf(n) = 0) <=> (Result.evidence_map[n] = <<>>)

\* C10: when the GET of the primary probe fails, detect returns Ok with an
\* empty DetectionResult: no slot set and no evidence.
C10_TransportErrorGivesEmptyResult ==
    (pc = "returned" /\ response = None) =>
        /\ detection[1].ok
        /\ Result.detected_waf = None
        /\ Result.detected_cdn = None
        /\ \A n \in DOMAIN Result.evidence_map : Result.evidence_map[n] = <<>>

(***************************************************************************)
(* engine/mod.rs: DetectionEngine::detect_batch                            *)
(***************************************************************************)
MaxUrls == 3

MaxWorkers == 2

\* the URLs a batch is made of; a URL can occur more than once in urls
UrlNames == {"a.example", "b.example"}

UrlLists == UNION { [1..n -> UrlNames] : n \in 0..MaxUrls }

\* what detect returns Ok for a URL in the batch: detect_all, all five providers
\* registered, on a response of the model, the three analyses finding nothing
DetectOk(r) ==
    LET s == CHOOSE s \in SortedOrders(ProviderNames) : TRUE
    IN  BuildDetectionResult(ProviderNames, DOMAIN r.headers,
            [i \in DOMAIN s |-> Some([name |-> s[i], evidence |-> Provider_detect(s[i], r)])],
            None, None, None)

BatchDetections ==
    { DetectOk(Resp(200, NoHeaders, PlainBody)),
      DetectOk(Resp(200, Merge(Hdr("cf-ray", RayId), Hdr("server", "cloudflare")), PlainBody)) }

\* lines 65-77: the failed_result built for a URL whose detect returned Err
failed_result ==
    [detected_waf |-> None, detected_cdn |-> None,
     provider_scores |-> [n \in {} |-> 0], evidence_map |-> [n \in {} |-> <<>>]]

\* the arm of Err dropping the URL: the closure yields None
failed_entry_dropped(url) == None

\* lines 61-79: the arm of Err yields Some((url, failed_result))
failed_entry(url) == Some(<<url, failed_result>>)

\* the buffer taking one future more than max
buffer_has_room_inclusive(in_progress, max) == Cardinality(in_progress) <= max

\* buffer_unordered(workers), line 82: the stream is polled for the next future
\* only while in_progress_queue.len() < max
buffer_has_room(in_progress, max) == Cardinality(in_progress) < max

RECURSIVE collect(_, _)
\* line 86: results.into_iter().flatten().collect() into a HashMap, a later
\* pair replacing an earlier pair of the same URL
collect(results, map) ==
    IF results = <<>> THEN map
    ELSE collect(Tail(results),
                 IF Head(results) = None THEN map
                 ELSE MapInsert(map, Head(results)[1][1], Head(results)[1][2]))

\* detect_batch(urls, workers) has been called and nothing has been polled yet
BatchInit ==
    /\ EngineInit /\ scorer = NoCall /\ payload = None /\ timing = None /\ smoke = None
    /\ \E urls \in UrlLists, workers \in 0..MaxWorkers :
          batch = [urls |-> urls, workers |-> workers, next |-> 1, in_progress |-> {},
                   outcome |-> [i \in DOMAIN urls |-> None], results |-> <<>>,
                   returned |-> None]

\* buffer_unordered takes the next future from stream::iter(urls).map(..)
BatchSpawn ==
    /\ batch.returned = None
    /\ batch.next <= Len(batch.urls)
    /\ buffer_has_room(batch.in_progress, batch.workers)
    /\ batch' = [batch EXCEPT !.in_progress = @ \cup {batch.next}, !.next = @ + 1]
    /\ UNCHANGED <<engine_vars, scorer, payload, timing, smoke, registry>>

\* the futures of the buffer are polled once the buffer is full or the stream
\* is exhausted
BatchPolled ==
    /\ batch.returned = None
    /\ ~buffer_has_room(batch.in_progress, batch.workers) \/ batch.next > Len(batch.urls)

\* lines 59-60: detect(url) returns Ok(result)
BatchDetectOk ==
    /\ BatchPolled
    /\ \E i \in batch.in_progress, result \in BatchDetections :
          batch' = [batch EXCEPT !.in_progress = @ \ {i},
                                 !.outcome[i] = Some([ok |-> TRUE, result |-> result]),
                                 !.results = Append(@, Some(<<batch.urls[i], result>>))]
    /\ UNCHANGED <<engine_vars, scorer, payload, timing, smoke, registry>>

\* lines 61-79: detect(url) returns Err
BatchDetectErr ==
    /\ BatchPolled
    /\ \E i \in batch.in_progress :
          batch' = [batch EXCEPT !.in_progress = @ \ {i},
                                 !.outcome[i] = Some([ok |-> FALSE]),
                                 !.results = Append(@, failed_entry(batch.urls[i]))]
    /\ UNCHANGED <<engine_vars, scorer, payload, timing, smoke, registry>>

\* lines 83-86: the stream has ended and the buffer is empty; the end of the
\* stream is seen only by a poll, which needs room in the buffer
BatchReturns ==
    /\ batch.returned = None
    /\ batch.next > Len(batch.urls)
    /\ batch.in_progress = {}
    /\ buffer_has_room(batch.in_progress, batch.workers)
    /\ batch' = [batch EXCEPT !.returned =
                    Some([ok |-> TRUE, map |-> collect(batch.results, [u \in {} |-> failed_result])])]
    /\ UNCHANGED <<engine_vars, scorer, payload, timing, smoke, registry>>

BatchNext == BatchSpawn \/ BatchDetectOk \/ BatchDetectErr \/ BatchReturns

SpecBatch == BatchInit /\ [][BatchNext]_vars

\* the positions of a URL in urls
OccurrencesOf(u) == { i \in DOMAIN batch.urls : batch.urls[i] = u }

\* C11: detect_batch returns Ok with an entry for every input URL; the entry
\* of a URL whose detection failed is the empty result, and the entry of every
\* URL is what a detection of that URL itself returned, whatever happened to
\* the other URLs of the batch.
C11_BatchKeepsEveryUrl ==
    batch.returned # None =>
        /\ batch.returned[1].ok
        /\ DOMAIN batch.returned[1].map = { batch.urls[i] : i \in DOMAIN batch.urls }
        /\ \A u \in DOMAIN batch.returned[1].map :
              /\ (\A i \in OccurrencesOf(u) : ~batch.outcome[i][1].ok)
                    => batch.returned[1].map[u] = failed_result
              /\ \E i \in OccurrencesOf(u) :
                    batch.returned[1].map[u] =
                        (IF batch.outcome[i][1].ok THEN batch.outcome[i][1].result ELSE failed_result)

\* a batch of three URLs has returned; the detection of one URL failed and the
\* detection of another URL found CloudFlare
C11_Witness ==
    /\ batch.returned # None
    /\ Len(batch.urls) = 3
    /\ \E u, v \in DOMAIN batch.returned[1].map :
          /\ u # v
          /\ \A i \in OccurrencesOf(u) : ~batch.outcome[i][1].ok
          /\ batch.returned[1].map[u] = failed_result
          /\ batch.returned[1].map[v].detected_waf # None

\* C14: at no point of detect_batch(urls, workers) are more than workers
\* detections in progress.
C14_AtMostWorkersInProgress ==
    Cardinality(batch.in_progress) <= batch.workers

\* two detections in progress under workers = 2 while a third URL waits, after
\* an earlier detection has completed
C14_Witness ==
    /\ batch.workers = 2
    /\ Cardinality(batch.in_progress) = 2
    /\ batch.next > 2
    /\ batch.next <= Len(batch.urls) + 1
    /\ batch.results # <<>>

(***************************************************************************)
(* detect_all when sources fail, and the join before the scoring (Spec)    *)
(***************************************************************************)
\* the sources of the returned detection whose analysis returned Err
FailedSources ==
    provider_results.failed
      \cup (IF dns_result.failed THEN {"DnsAnalysis"} ELSE {})
      \cup (IF payload_result.failed THEN {"PayloadAnalysis"} ELSE {})

\* the provider results with Ok(no evidence) in the place of every Err
AsNoEvidence ==
    [i \in DOMAIN sorted |->
        IF sorted[i] \in provider_results.failed
        THEN Some([name |-> sorted[i], evidence |-> <<>>])
        ELSE provider_results.value[1][i]]

\* C12: detect_all returns Ok whatever subset of the providers and of the DNS
\* and payload analyses returned Err; a failed source has an empty list in
\* evidence_map, no score and no slot, and the result is the one built when
\* each failed source had returned no evidence.
C12_FailuresDegradeSilently ==
    (pc = "returned" /\ response # None) =>
        /\ detection[1].ok
        /\ \A n \in FailedSources :
              /\ Result.evidence_map[n] = <<>>
              /\ n \notin DOMAIN Result.provider_scores
              /\ Result.detected_waf # None => Result.detected_waf[1].name # n
              /\ Result.detected_cdn # None => Result.detected_cdn[1].name # n
        /\ Result = BuildDetectionResult(providers, DOMAIN response[1].headers, AsNoEvidence,
                                         timing_result.value[1],
                                         IF dns_result.failed THEN None ELSE dns_result.value[1],
                                         IF payload_result.failed THEN None ELSE payload_result.value[1])

\* a detection has returned in which a provider that would have matched the
\* response failed, the DNS and payload analyses failed too, and another
\* provider took the waf slot
C12_Witness ==
    /\ Returned
    /\ dns_result.failed /\ payload_result.failed
    /\ \E n \in provider_results.failed : Provider_detect(n, response[1]) # <<>>
    /\ Result.detected_waf # None
    /\ Result.detected_waf[1].name \notin FailedSources

\* C13: within one detection the scoring and the choice of the slots, which
\* produce the DetectionResult, take place only in a step before which every
\* provider future and the timing, DNS and payload futures have completed.
C13_ScoringAfterAllProbes ==
    [][(pc = "join" /\ detection' # detection)
          => (provider_results.done /\ timing_result.done /\ dns_result.done /\ payload_result.done)]_vars

\* a detection has returned whose result holds scores of a provider and of
\* the timing, DNS and payload analyses
C13_Witness ==
    /\ Returned
    /\ SyntheticSources \subseteq DOMAIN Result.provider_scores
    /\ \E n \in providers : n \in DOMAIN Result.provider_scores

(***************************************************************************)
(* providers/fastly.rs and providers/aws.rs on a CloudFront x-cache header *)
(* next to a Varnish via header                                            *)
(***************************************************************************)
\* the detection ran with AWS and Fastly registered, none of the providers
\* failed, and the response carried x-cache: "HIT from cloudfront" and
\* via: "1.1 varnish" and nothing else
CloudFrontOverVarnishDetected ==
    /\ Returned
    /\ response = Some(CloudFrontOverVarnish)
    /\ {"AWS", "Fastly"} \subseteq providers
    /\ provider_results.failed = {}

\* C15: for a response whose only headers are x-cache: "HIT from cloudfront"
\* and via: "1.1 varnish", Fastly's x-cache signature does not match, and AWS
\* holds the cdn slot.
C15_AwsWinsOverFastlyVia ==
    CloudFrontOverVarnishDetected =>
        /\ \A i \in DOMAIN Result.evidence_map["Fastly"] :
              Result.evidence_map["Fastly"][i].signature_matched # "fastly-cache-pattern"
        /\ Result.detected_cdn # None
        /\ Result.detected_cdn[1].name = "AWS"

(***************************************************************************)
(* payload/waf_smoke_test.rs: WafSmokeTest                                 *)
(***************************************************************************)
MaxProbes == 4

\* two entries of initialize_advanced_payloads (lines 156-161 and 213-219)
XssPayload == "<script>alert('XSS')</script>"

Catalogue == << <<"XssBasic", XssPayload>>, <<"ScannerDetection", "sqlmap">> >>

\* the payload of the i-th request of run_test
PayloadAt(i) == Catalogue[((i - 1) % Len(Catalogue)) + 1]

\* bodies and headers the probed server can answer with
CaptchaBody == "Please complete the captcha to continue"

ReflectingBody == "<p>No results for <script>alert('XSS')</script></p>"

SecurityModeHeader == Hdr("x-security-mode", "monitoring")

\* body.to_lowercase().contains("checking your browser") || .. "challenge" || .. "captcha"
BodyIsChallenge == {ChallengeBody, CaptchaBody}

\* <<body, keyword>>: body.to_lowercase().contains(keyword)
BodyContainsKeyword == {<<DeniedBody, "access denied">>}

\* <<body, payload>>: response.body.contains(payload)
BodyContainsPayload == {<<ReflectingBody, XssPayload>>}

\* name.to_lowercase().contains("blocked") || name.to_lowercase().contains("security")
\*   || value.to_lowercase().contains("blocked") || value.to_lowercase().contains("denied")
NameContainsBlockedOrSecurity == {"x-security-mode"}

ValueContainsBlockedOrDenied == {}

\* An evidence String is the sequence of the pieces format! joins; a piece
\* of the model that contains "monitoring" or "reflected":
ContainsMonitoringOrReflected ==
    {"monitoring", "Payload reflected in response (possible monitoring mode)"}

\* lines 381-406: the match on response.status
StatusClassification(status) ==
    CASE status = 403 -> "Blocked"
      [] status = 406 -> "Blocked"
      [] status = 429 -> "RateLimited"
      [] status = 503 -> "Blocked"
      [] status \in {200, 301, 302} -> "Allowed"
      [] OTHER -> "Error"

\* the String pushed by the arm of the match that is taken
StatusEvidence(status) ==
    CASE status = 403 -> <<"HTTP 403 Forbidden - Request blocked">>
      [] status = 406 -> <<"HTTP 406 Not Acceptable - Request rejected">>
      [] status = 429 -> <<"HTTP 429 Too Many Requests - Rate limited">>
      [] status = 503 -> <<"HTTP 503 Service Unavailable - Potentially blocked">>
      [] status \in {200, 301, 302} -> <<"HTTP ", ToString(status), " - Request allowed through">>
      [] OTHER -> <<"HTTP ", ToString(status), " - Unexpected response">>

\* lines 410-436, the body of the loop for one header: <<evidence, waf_indicators>>
HeaderIndicators(name, value) ==
    LET cf == name \in KeyContainsCf \/ value \in ValueContainsCloudflare
        aws == name \in KeyContainsXAmz \/ value \in ValueContainsAws
        akamai == name \in KeyContainsAkamai \/ value \in ValueContainsAkamai
        blocking == name \in NameContainsBlockedOrSecurity \/ value \in ValueContainsBlockedOrDenied
    IN  << PushIf(cf, <<"CloudFlare header detected: ", name, ": ", value>>)
           \o PushIf(aws, <<"AWS WAF header detected: ", name, ": ", value>>)
           \o PushIf(akamai, <<"Akamai header detected: ", name, ": ", value>>)
           \o PushIf(blocking, <<"Blocking header detected: ", name, ": ", value>>),
           PushIf(cf, "CloudFlare") \o PushIf(aws, "AWS WAF") \o PushIf(akamai, "Akamai") >>

RECURSIVE HeaderLoop(_, _)
\* lines 409-437: the loop over response.headers, in some order of the map
HeaderLoop(headers, names) ==
    IF names = {} THEN << <<>>, <<>> >>
    ELSE LET name == CHOOSE n \in names : TRUE
             one == HeaderIndicators(name, headers[name])
             rest == HeaderLoop(headers, names \ {name})
         IN  <<one[1] \o rest[1], one[2] \o rest[2]>>

\* lines 450-454
blocking_keywords ==
    <<"access denied", "blocked", "forbidden", "not allowed", "security violation", "malicious request",
      "attack detected", "waf", "firewall", "protection", "security policy", "threat detected">>

RECURSIVE KeywordLoop(_, _)
\* lines 456-461: evidence of the first keyword the body contains
KeywordLoop(body, keywords) ==
    IF keywords = <<>> THEN <<>>
    ELSE IF <<body, Head(keywords)>> \in BodyContainsKeyword
         THEN << <<"Blocking keyword detected: ", Head(keywords)>> >>
         ELSE KeywordLoop(body, Tail(keywords))

\* lines 442-444: the test of the challenge page
challenge_page(body) == body \in BodyIsChallenge

\* line 464
payload_reflected(classification, body, injected) ==
    classification = "Allowed" /\ <<body, injected>> \in BodyContainsPayload

\* lines 372-469
classify_response(resp, injected) ==
    LET classification == StatusClassification(resp.status)
        from_headers == HeaderLoop(resp.headers, DOMAIN resp.headers)
        evidence == <<StatusEvidence(resp.status)>> \o from_headers[1]
    IN  IF challenge_page(resp.body)
        THEN [classification |-> "Challenge",
              evidence |-> Append(evidence, <<"Challenge page detected">>),
              waf_indicators |-> from_headers[2]]
        ELSE [classification |-> classification,
              evidence |-> evidence \o KeywordLoop(resp.body, blocking_keywords)
                           \o PushIf(payload_reflected(classification, resp.body, injected),
                                     <<"Payload reflected in response (possible monitoring mode)">>),
              waf_indicators |-> from_headers[2]]

\* what one request of the smoke test meets: an Err of the HTTP client
\* (response None) or a response, after elapsed_ms milliseconds
TransportFailure == [response |-> None, elapsed_ms |-> 10000]

Answered(resp) == [response |-> Some(resp), elapsed_ms |-> 100]

RateLimitedWithCaptcha == Resp(429, NoHeaders, CaptchaBody)

AllowedWithSecurityHeader == Resp(200, SecurityModeHeader, PlainBody)

ProbeOutcomes ==
    { TransportFailure,
      Answered(RateLimitedWithCaptcha),
      Answered(Resp(429, NoHeaders, PlainBody)),
      Answered(Resp(200, NoHeaders, PlainBody)),
      Answered(Resp(200, NoHeaders, ReflectingBody)),
      Answered(AllowedWithSecurityHeader),
      Answered(Resp(403, Hdr("cf-ray", RayId), DeniedBody)),
      Answered(Resp(404, NoHeaders, PlainBody)) }

\* lines 278-357; the category is the Debug form of the payload type
test_single_payload(payload_type, injected, outcome) ==
    IF outcome.response = None
    THEN [category |-> payload_type, payload |-> injected, payload_type |-> payload_type,
          response_status |-> 0, response_time_ms |-> outcome.elapsed_ms, classification |-> "Error",
          evidence |-> << <<"Request failed: ", "error sending request">> >>,
          waf_indicators |-> <<>>]
    ELSE LET classified == classify_response(outcome.response[1], injected)
         IN  [category |-> payload_type, payload |-> injected, payload_type |-> payload_type,
              response_status |-> outcome.response[1].status, response_time_ms |-> outcome.elapsed_ms,
              classification |-> classified.classification,
              evidence |-> classified.evidence
                           \o PushIf(payload_type = "ScannerDetection",
                                     <<"Testing if WAF blocks '", injected,
                                       "' scanner signature via User-Agent header">>),
              waf_indicators |-> classified.waf_indicators]

\* the unit of the f64 of the summary and of the block rate: thousandths
Milli == 1000

\* results.iter().filter(|r| r.classification == c).count()
CountOf(results, c) == Cardinality({ i \in DOMAIN results : results[i].classification = c })

\* line 513 with only the blocked requests counted
protected_blocked_only(blocked_count, rate_limited_count, challenge_count) == blocked_count

\* line 513: blocked_count + rate_limited_count + challenge_count
protected(blocked_count, rate_limited_count, challenge_count) ==
    blocked_count + rate_limited_count + challenge_count

\* lines 504-534; the two f64 are in units of 1/Milli
calculate_summary(results) ==
    LET total_tests == Len(results)
        blocked_count == CountOf(results, "Blocked")
        rate_limited_count == CountOf(results, "RateLimited")
        challenge_count == CountOf(results, "Challenge")
    IN  [total_tests |-> total_tests,
         blocked_count |-> blocked_count,
         allowed_count |-> CountOf(results, "Allowed"),
         error_count |-> CountOf(results, "Error"),
         rate_limited_count |-> rate_limited_count,
         challenge_count |-> challenge_count,
         effectiveness_percentage |->
             IF total_tests > 0
             THEN ((protected(blocked_count, rate_limited_count, challenge_count) * Milli) \div total_tests) * 100
             ELSE 0,
         average_response_time_ms |->
             IF total_tests > 0
             THEN (SeqSum([i \in DOMAIN results |-> results[i].response_time_ms]) * Milli) \div total_tests
             ELSE 0]

\* lines 558-560: r.evidence.iter().any(|e| e.contains("monitoring") || e.contains("reflected"))
has_monitoring(results) ==
    \E i \in DOMAIN results : \E j \in DOMAIN results[i].evidence :
        \E k \in DOMAIN results[i].evidence[j] : results[i].evidence[j][k] \in ContainsMonitoringOrReflected

\* lines 537-569; block_rate is in units of 1/Milli
determine_waf_mode(results) ==
    LET total_tests == Len(results)
        blocked_tests == Cardinality({ i \in DOMAIN results :
                             results[i].classification \in {"Blocked", "RateLimited", "Challenge"} })
        block_rate == (blocked_tests * Milli) \div total_tests
    IN  IF total_tests = 0 THEN None
        ELSE IF block_rate >= (8 * Milli) \div 10 THEN Some("Blocking")
        ELSE IF block_rate >= (3 * Milli) \div 10 THEN Some("Mixed")
        ELSE IF block_rate > 0 THEN Some("Mixed")
        ELSE IF has_monitoring(results) THEN Some("Monitoring")
        ELSE Some("Unknown")

\* 403 for 10 of 12 payloads and 200 for 2
TenOfTwelve ==
    [i \in 1..12 |-> IF i <= 10 THEN Answered(Resp(403, Hdr("cf-ray", RayId), DeniedBody))
                     ELSE Answered(Resp(200, NoHeaders, PlainBody))]

\* the outcomes of the requests of one run_test
ProbeLists == UNION { [1..n -> ProbeOutcomes] : n \in 0..MaxProbes } \cup {TenOfTwelve}

SmokeInit ==
    /\ EngineInit /\ scorer = NoCall /\ payload = None /\ timing = None /\ batch = None
    /\ \E probes \in ProbeLists :
          smoke = [probes |-> probes, test_results |-> <<>>, report |-> None]

\* lines 243-251: one turn of the loops of run_test
SmokeTestSinglePayload ==
    /\ smoke # None /\ smoke.report = None
    /\ Len(smoke.test_results) < Len(smoke.probes)
    /\ LET i == Len(smoke.test_results) + 1
       IN  smoke' = [smoke EXCEPT !.test_results =
                        Append(@, test_single_payload(PayloadAt(i)[1], PayloadAt(i)[2], smoke.probes[i]))]
    /\ UNCHANGED <<engine_vars, scorer, payload, timing, batch, registry>>

\* lines 253-272: the analysis of the results and the SmokeTestResult
SmokeAnalyze ==
    /\ smoke # None /\ smoke.report = None
    /\ Len(smoke.test_results) = Len(smoke.probes)
    /\ smoke' = [smoke EXCEPT !.report = Some([test_results |-> smoke.test_results,
                                                summary |-> calculate_summary(smoke.test_results),
                                                waf_mode |-> determine_waf_mode(smoke.test_results)])]
    /\ UNCHANGED <<engine_vars, scorer, payload, timing, batch, registry>>

SmokeNext == SmokeTestSinglePayload \/ SmokeAnalyze

SpecSmoke == SmokeInit /\ [][SmokeNext]_vars

Reported == smoke # None /\ smoke.report # None

Report == smoke.report[1]

\* the response the i-th request received, when it received one
Received(i) == smoke.probes[i].response

\* C16: a probe response with status 429 is classified RateLimited whatever
\* its headers and body contain.
C16_Status429IsRateLimited ==
    smoke # None =>
        \A i \in DOMAIN smoke.test_results :
            smoke.test_results[i].response_status = 429 => smoke.test_results[i].classification = "RateLimited"

\* a header name, a header value or the body of the response carries one of
\* the blocking indications
BlockingIndication(resp) ==
    \/ \E name \in DOMAIN resp.headers :
          name \in NameContainsBlockedOrSecurity \/ resp.headers[name] \in ValueContainsBlockedOrDenied
    \/ KeywordLoop(resp.body, blocking_keywords) # <<>>

\* C17: a probe response with status 200, 301 or 302 that carries a blocking
\* indication in a header name, a header value or the body is classified
\* Blocked; it is classified Allowed only when it carries none.
C17_BlockingIndicationOverridesAllowed ==
    smoke # None =>
        \A i \in DOMAIN smoke.test_results :
            (Received(i) # None /\ Received(i)[1].status \in {200, 301, 302}) =>
                /\ BlockingIndication(Received(i)[1]) => smoke.test_results[i].classification = "Blocked"
                /\ smoke.test_results[i].classification = "Allowed" => ~BlockingIndication(Received(i)[1])

\* C18: a result is classified Error only when its request failed at
\* transport level, and the summary's error_count is the number of the
\* requests that failed at transport level.
C18_ErrorOnlyOnTransportFailure ==
    smoke # None =>
        /\ \A i \in DOMAIN smoke.test_results :
              smoke.test_results[i].classification = "Error" => Received(i) = None
        /\ Reported =>
              Report.summary.error_count = Cardinality({ i \in DOMAIN smoke.probes : Received(i) = None })

\* the results of the report that count as protected
ProtectedResults ==
    { i \in DOMAIN Report.test_results :
        Report.test_results[i].classification \in {"Blocked", "RateLimited", "Challenge"} }

\* C19: the effectiveness percentage of the summary is 100 * (Blocked +
\* RateLimited + Challenge) / total, to the precision of the model's f64, and
\* 0 for an empty list; the five counts add up to the total.
C19_EffectivenessCountsProtected ==
    Reported =>
        LET summary == Report.summary
            total == Len(Report.test_results)
            eff == summary.effectiveness_percentage
        IN  /\ summary.total_tests = total
            /\ summary.blocked_count + summary.allowed_count + summary.error_count
                  + summary.rate_limited_count + summary.challenge_count = total
            /\ total = 0 => eff = 0
            /\ total > 0 =>
                  /\ eff * total <= 100 * Cardinality(ProtectedResults) * Milli
                  /\ 100 * Cardinality(ProtectedResults) * Milli < (eff + 100) * total

\* a report over a blocked, a rate limited, an allowed and a failed request:
\* half of them count as protected
C19_Witness ==
    /\ Reported
    /\ Report.summary.blocked_count = 1 /\ Report.summary.rate_limited_count = 1
    /\ Report.summary.allowed_count = 1 /\ Report.summary.error_count = 1
    /\ Report.summary.effectiveness_percentage = 50 * Milli

\* some result carries the observation that its payload was reflected
PayloadReflectedObserved ==
    \E i \in DOMAIN Report.test_results : \E j \in DOMAIN Report.test_results[i].evidence :
        Report.test_results[i].evidence[j] = <<"Payload reflected in response (possible monitoring mode)">>

\* C20: over a non-empty list of results the WafMode is Blocking when at
\* least 80% of the results count as protected, Mixed when some but fewer
\* do, Monitoring when none does and some result carries a payload-reflected
\* observation, and Unknown otherwise; 10 protected results of 12 give
\* Blocking.
C20_WafModeFromBlockRate ==
    (Reported /\ Report.test_results # <<>>) =>
        LET total == Len(Report.test_results)
            blocked == Cardinality(ProtectedResults)
        IN  /\ Report.waf_mode =
                  Some(IF 5 * blocked >= 4 * total THEN "Blocking"
                       ELSE IF blocked > 0 THEN "Mixed"
                       ELSE IF PayloadReflectedObserved THEN "Monitoring"
                       ELSE "Unknown")
            /\ (total = 12 /\ blocked = 10) => Report.waf_mode = Some("Blocking")

(***************************************************************************)
(* timing/mod.rs: the window of the WAF delay (SpecTiming)                 *)
(***************************************************************************)
InWindow(delay) == min_waf_delay_ms <= delay /\ delay <= max_waf_delay_ms

Analyzed == timing # None /\ timing.evidence # None

\* the delay_amount_ms of the TimingAnalysis an Evidence item was pushed for
DelayOf(ev) ==
    IF ev.signature_matched = "timing-waf-delay"
    THEN baseline_comparison(timing.baseline_times[1], timing.test_times[1]).delay_amount_ms
    ELSE pattern_analysis(timing.all_times[1]).delay_amount_ms

\* C21: every Evidence item that TimingAnalyzer::analyze emits, by either
\* technique, reports a delay within [min_waf_delay_ms, max_waf_delay_ms].
C21_TimingEvidenceWithinWindow ==
    Analyzed => \A i \in DOMAIN timing.evidence[1] : InWindow(DelayOf(timing.evidence[1][i]))

\* test_avg - baseline_avg of the two measurements
MeasuredDelay == Average(timing.test_times[1]) - Average(timing.baseline_times[1])

\* C27: when the test average exceeds the baseline average by exactly
\* min_waf_delay_ms the analyser emits Evidence, and when it exceeds it by
\* min_waf_delay_ms - 1 the analyser emits none.
C27_EvidenceFromMinDelay ==
    (Analyzed /\ timing.baseline_times # None /\ timing.test_times # None) =>
        /\ MeasuredDelay = min_waf_delay_ms => timing.evidence[1] # <<>>
        /\ MeasuredDelay = min_waf_delay_ms - 1 => timing.evidence[1] = <<>>

(***************************************************************************)
(* The providers on responses without a vendor's marks (Spec)              *)
(***************************************************************************)
\* C22: on the response 200 with server: nginx/1.18.0, x-powered-by: Express
\* and a plain body every registered provider has an empty Evidence list and
\* no positive score, and both slots are unset.
C22_NoFalsePositiveOnPlainOrigin ==
    (Returned /\ response = Some(NginxExpress)) =>
        /\ \A n \in providers : Result.evidence_map[n] = <<>> /\ ScoreOf(n) = 0
        /\ \A n \in ProviderNames : Provider_detect(n, NginxExpress) = <<>>
        /\ Result.detected_waf = None
        /\ Result.detected_cdn = None

\* the detection of that response has returned with the five providers
\* registered and none of them failing
C22_Witness ==
    /\ Returned
    /\ response = Some(NginxExpress)
    /\ providers = ProviderNames
    /\ provider_results.failed = {}

\* the header names that the status code checks of a provider look for
VendorHeaders(name) ==
    CASE name = "CloudFlare" -> {"cf-ray"}
      [] name = "AWS" -> {"x-amzn-requestid", "x-amzn-errortype", "x-amz-cf-id"}
      [] name = "Akamai" -> akamai_x_header_pattern
      [] name = "Fastly" -> {"fastly-restarts", "x-served-by"}
      [] name = "Vercel" -> {"x-vercel-id"}

\* C23: a provider's Evidence list holds StatusCode Evidence only when the
\* response carries a header specific to that vendor, whatever the body is.
C23_StatusCodeEvidenceNeedsVendorHeader ==
    Returned =>
        \A n \in providers :
            (\E i \in DOMAIN Result.evidence_map[n] : Result.evidence_map[n][i].method_type = "StatusCode")
                => DOMAIN response[1].headers \cap VendorHeaders(n) # {}

(***************************************************************************)
(* calculate_confidence: the header bonus and the body penalty (SpecScore) *)
(***************************************************************************)
\* the total of the contributions of the Evidence of the call, T
Total == PositiveScore(scorer.evidence)

\* every Evidence of the call has a weight of the Headers category
AllHeaders ==
    /\ scorer.evidence # <<>>
    /\ \A i \in DOMAIN scorer.evidence : WeightOf(scorer.evidence[i]).category = "Headers"

\* C24 as stated: when all the Evidence is of the Headers category and sums
\* to T, the score is at least min(1.0, 1.10 * T), for every set of response
\* headers.
C24_HeaderBonusForEveryHeaderMap ==
    (Scored /\ AllHeaders) => ScoreResult.score >= Min(Scale, FloorMul(Total, 11, 10))

\* C24 amended: when all the Evidence is of the Headers category and sums to
\* T >= 0.001, and no response header name contradicts the provider, the
\* score is min(1.0, 1.10 * T); with k contradicting header names it is
\* min(1.0, 1.10 * 0.3^k * T), so never above that bound.
C24_HeaderBonusWithoutContradiction ==
    (Scored /\ AllHeaders /\ Total >= Scale \div 1000) =>
        /\ ScoreResult.header_bonus
        /\ ScoreResult.score =
              Min(Scale, FloorMul(Penalise(Total, ScoreResult.negative_evidence_count), 11, 10))
        /\ ScoreResult.negative_evidence_count = 0
              => ScoreResult.score = Min(Scale, FloorMul(Total, 11, 10))
        /\ ScoreResult.score <= Min(Scale, FloorMul(Total, 11, 10))

\* a call on Headers Evidence only, without contradiction, scored 1.10 * T
\* below the ceiling
C24_Witness ==
    /\ Scored /\ AllHeaders
    /\ ScoreResult.negative_evidence_count = 0
    /\ ScoreResult.score = FloorMul(Total, 11, 10)
    /\ ScoreResult.score < Scale

\* more than 50% of T comes from Body Evidence and less than 30% from Headers
\* Evidence
BodyHeavy ==
    /\ CategoryScore(scorer.evidence, "Body") > FloorMul(Total, 1, 2)
    /\ CategoryScore(scorer.evidence, "Headers") < CeilMul(Total, 3, 10)

\* C25 as stated: when more than 50% of T is Body Evidence and less than 30%
\* Headers Evidence, the score is at most 0.80 * T, whatever other categories
\* are present.
C25_BodyPenaltyWhateverCategories ==
    (Scored /\ BodyHeavy) => ScoreResult.score <= FloorMul(Total, 8, 10)

\* C25 amended: when more than 50% of T is Body Evidence, less than 30%
\* Headers Evidence and T >= 0.001, the score is at most 0.80 * T if fewer
\* than three categories have a positive subtotal and at most
\* 0.80 * 1.05 * T = 0.84 * T otherwise; without contradiction the body
\* penalty applies and the score is exactly that value under the ceiling.
C25_BodyPenaltyBeforeDiversityBonus ==
    (Scored /\ BodyHeavy /\ Total >= Scale \div 1000) =>
        /\ ScoreResult.score <= FloorMul(FloorMul(Total, 8, 10), 105, 100)
        /\ NonZeroCategories(scorer.evidence) < 3
              => ScoreResult.score <= FloorMul(Total, 8, 10)
        /\ ScoreResult.negative_evidence_count = 0
              => /\ ScoreResult.body_penalty
                 /\ ScoreResult.score =
                       Min(Scale, DiversityBonus(scorer.evidence, FloorMul(Total, 8, 10)))

\* a body-heavy call with three categories: the penalty and then the
\* diversity bonus leave the score above 0.80 * T
C25_Witness ==
    /\ Scored /\ BodyHeavy
    /\ NonZeroCategories(scorer.evidence) >= 3
    /\ ScoreResult.body_penalty
    /\ ScoreResult.score = FloorMul(FloorMul(Total, 8, 10), 105, 100)
    /\ ScoreResult.score > FloorMul(Total, 8, 10)

(***************************************************************************)
(* calculate_confidence in IEEE-754 binary64, the f64 of the code: every   *)
(* product, sum and quotient is rounded to 53 significant bits, to nearest *)
(* with ties to even.  The scores of the rest of the model are kept in     *)
(* 1/Scale; the f64 itself is computed where the question is whether two   *)
(* scores are the same f64.                                                *)
(***************************************************************************)
\* naturals wider than 32 bits: little-endian sequences of limbs of 14 bits,
\* so that the product of two limbs stays below 2^31
LimbBits == 14

Base == 2 ^ LimbBits

RECURSIVE Canon(_)
Canon(n) == IF n = <<>> \/ n[Len(n)] # 0 THEN n ELSE Canon(SubSeq(n, 1, Len(n) - 1))

RECURSIVE FromInt(_)
FromInt(k) == IF k = 0 THEN <<>> ELSE <<k % Base>> \o FromInt(k \div Base)

Limb(n, i) == IF i <= Len(n) THEN n[i] ELSE 0

RECURSIVE AddFrom(_, _, _, _)
AddFrom(a, b, i, carry) ==
    IF i > Len(a) /\ i > Len(b) THEN (IF carry = 0 THEN <<>> ELSE <<carry>>)
    ELSE <<(Limb(a, i) + Limb(b, i) + carry) % Base>>
         \o AddFrom(a, b, i + 1, (Limb(a, i) + Limb(b, i) + carry) \div Base)

BigAdd(a, b) == AddFrom(a, b, 1, 0)

RECURSIVE SubFrom(_, _, _, _)
SubFrom(a, b, i, borrow) ==
    IF i > Len(a) THEN <<>>
    ELSE <<(Limb(a, i) - Limb(b, i) - borrow + Base) % Base>>
         \o SubFrom(a, b, i + 1, IF Limb(a, i) - Limb(b, i) - borrow < 0 THEN 1 ELSE 0)

\* a - b for a >= b
BigSub(a, b) == Canon(SubFrom(a, b, 1, 0))

RECURSIVE LessAt(_, _, _)
LessAt(a, b, i) ==
    IF i = 0 THEN FALSE
    ELSE IF a[i] # b[i] THEN a[i] < b[i] ELSE LessAt(a, b, i - 1)

BigLess(a, b) == IF Len(a) # Len(b) THEN Len(a) < Len(b) ELSE LessAt(a, b, Len(a))

RECURSIVE MulSmallFrom(_, _, _, _)
MulSmallFrom(a, k, i, carry) ==
    IF i > Len(a) THEN (IF carry = 0 THEN <<>> ELSE <<carry>>)
    ELSE <<(a[i] * k + carry) % Base>> \o MulSmallFrom(a, k, i + 1, (a[i] * k + carry) \div Base)

\* a * k for 0 <= k < Base
MulSmall(a, k) == IF k = 0 THEN <<>> ELSE MulSmallFrom(a, k, 1, 0)

RECURSIVE BigMul(_, _)
BigMul(a, b) ==
    IF a = <<>> \/ b = <<>> THEN <<>>
    ELSE BigAdd(MulSmall(a, Head(b)), Canon(<<0>> \o BigMul(a, Tail(b))))

Zeros(k) == [i \in 1..k |-> 0]

\* n * 2^s
ShiftLeft(n, s) ==
    IF n = <<>> THEN <<>> ELSE Zeros(s \div LimbBits) \o MulSmall(n, 2 ^ (s % LimbBits))

\* floor(n / 2^s)
ShiftRight(n, s) ==
    Canon([i \in 1..(Len(n) - s \div LimbBits) |->
              (n[i + s \div LimbBits] \div 2 ^ (s % LimbBits))
              + (Limb(n, i + 1 + s \div LimbBits) % 2 ^ (s % LimbBits))
                * 2 ^ (LimbBits - (s % LimbBits))])

\* n mod 2^s is not zero
LowBitsSet(n, s) ==
    \/ \E i \in 1..Len(n) : i <= s \div LimbBits /\ n[i] # 0
    \/ Limb(n, 1 + s \div LimbBits) % 2 ^ (s % LimbBits) # 0

RECURSIVE IntBits(_)
IntBits(k) == IF k = 0 THEN 0 ELSE 1 + IntBits(k \div 2)

BitLength(n) == IF n = <<>> THEN 0 ELSE LimbBits * (Len(n) - 1) + IntBits(n[Len(n)])

IsOdd(n) == n # <<>> /\ n[1] % 2 = 1

\* IEEE-754 binary64: a finite f64 is sig * 2^exp with a significand of 53 bits
SignificandBits == 53

F64(sig, exp) == [sig |-> sig, exp |-> exp]

Zero == F64(<<>>, 0)

\* the carry out of the significand after rounding up
Renormalise(sig, exp) ==
    IF BitLength(sig) > SignificandBits THEN F64(ShiftRight(sig, 1), exp + 1) ELSE F64(sig, exp)

\* round to nearest, ties to even: kept is the significand, half the first
\* dropped bit, sticky whether anything below it is set
RoundUp(kept, half, sticky, exp) ==
    IF half /\ (sticky \/ IsOdd(kept)) THEN Renormalise(BigAdd(kept, <<1>>), exp) ELSE F64(kept, exp)

\* s > 0 low bits of n are dropped
RoundDropping(n, s, exp, sticky) ==
    RoundUp(ShiftRight(n, s), IsOdd(ShiftRight(n, s - 1)), sticky \/ LowBitsSet(n, s - 1), exp + s)

\* the f64 nearest to (n + f) * 2^exp, where 0 <= f < 1 and sticky says f > 0
Round(n, exp, sticky) ==
    IF n = <<>> THEN Zero
    ELSE IF BitLength(n) <= SignificandBits
         THEN F64(ShiftLeft(n, SignificandBits - BitLength(n)), exp - (SignificandBits - BitLength(n)))
         ELSE RoundDropping(n, BitLength(n) - SignificandBits, exp, sticky)

FMul(x, y) ==
    IF x.sig = <<>> \/ y.sig = <<>> THEN Zero ELSE Round(BigMul(x.sig, y.sig), x.exp + y.exp, FALSE)

FAdd(x, y) ==
    IF x.sig = <<>> THEN y
    ELSE IF y.sig = <<>> THEN x
    ELSE Round(BigAdd(ShiftLeft(x.sig, x.exp - Min(x.exp, y.exp)),
                      ShiftLeft(y.sig, y.exp - Min(x.exp, y.exp))),
               Min(x.exp, y.exp), FALSE)

\* binary long division: k further quotient bits of rem / d, for rem < d
DivBits[rem \in Seq(Nat), d \in Seq(Nat), k \in Nat, q \in Seq(Nat)] ==
    IF k = 0 THEN <<q, rem>>
    ELSE IF BigLess(BigAdd(rem, rem), d)
         THEN DivBits[BigAdd(rem, rem), d, k - 1, BigAdd(q, q)]
         ELSE DivBits[BigSub(BigAdd(rem, rem), d), d, k - 1, BigAdd(BigAdd(q, q), <<1>>)]

\* extra quotient bits kept for the rounding
GuardBits == SignificandBits + 3

Quotient(x, y) ==
    IF BigLess(x.sig, y.sig) THEN DivBits[x.sig, y.sig, GuardBits, <<>>]
    ELSE DivBits[BigSub(x.sig, y.sig), y.sig, GuardBits, <<1>>]

RoundQuotient(qr, exp) == Round(qr[1], exp, qr[2] # <<>>)

\* x / y for y # 0
FDiv(x, y) ==
    IF x.sig = <<>> THEN Zero ELSE RoundQuotient(Quotient(x, y), x.exp - y.exp - GuardBits)

\* x < y for finite non-negative values
FLess(x, y) ==
    IF y.sig = <<>> THEN FALSE
    ELSE IF x.sig = <<>> THEN TRUE
    ELSE IF x.exp # y.exp THEN x.exp < y.exp
    ELSE BigLess(x.sig, y.sig)

FMax(x, y) == IF FLess(x, y) THEN y ELSE x

FMin(x, y) == IF FLess(y, x) THEN y ELSE x

\* the f64 of a decimal literal num / den, den < Base
Push(limb, qr) == <<Append(qr[1], limb), qr[2]>>

RECURSIVE QuotSmall(_, _, _, _)
\* limbs i..1 of n divided by d with incoming remainder: <<quotient limbs (little-endian), remainder>>
QuotSmall(n, d, i, rem) ==
    IF i = 0 THEN <<<<>>, rem>>
    ELSE Push((rem * Base + n[i]) \div d, QuotSmall(n, d, i - 1, (rem * Base + n[i]) % d))

CanonQuot(qr) == <<Canon(qr[1]), qr[2]>>

RoundSmall(qr, exp) == Round(qr[1], exp, qr[2] # 0)

Literal(num, den) ==
    RoundSmall(CanonQuot(QuotSmall(ShiftLeft(FromInt(num), 70), den, Len(ShiftLeft(FromInt(num), 70)), 0)), 0 - 70)

\* line 454: ev.confidence * weight.base_weight * weight.specificity * weight.reliability,
\* evaluated from the left; the operands are literals of two decimals
F64Weighted(confidence, w) ==
    FMul(FMul(FMul(Literal(confidence, 100), Literal(w.base_weight, 100)),
              Literal(w.specificity, 100)),
         Literal(w.reliability, 100))

\* evidence_score of each Evidence item of the lists
F64EvidenceScore == [ev \in EvidencePool |-> F64Weighted(ev.confidence, WeightOf(ev))]

RECURSIVE F64Total(_, _)
\* line 455: total_score += evidence_score, in the order of the list
F64Total(evidence, acc) ==
    IF evidence = <<>> THEN acc
    ELSE F64Total(Tail(evidence), FAdd(acc, F64EvidenceScore[Head(evidence)]))

RECURSIVE F64Category(_, _, _)
\* lines 458-460: *category_score += evidence_score, in the order of the list
F64Category(evidence, category, acc) ==
    IF evidence = <<>> THEN acc
    ELSE F64Category(Tail(evidence), category,
                     IF WeightOf(Head(evidence)).category = category
                     THEN FAdd(acc, F64EvidenceScore[Head(evidence)]) ELSE acc)

RECURSIVE F64Penalise(_, _)
\* line 478: total_score *= 0.3, once for each contradiction
F64Penalise(total, k) ==
    IF k = 0 THEN total ELSE F64Penalise(FMul(total, Literal(3, 10)), k - 1)

\* lines 489-490: the subtotal of a category / total_score.max(0.001)
F64Ratio(part, total) == FDiv(part, FMax(total, Literal(1, 1000)))

\* lines 493-496
F64HeaderBonus(hratio, total) ==
    IF FLess(Literal(7, 10), hratio) THEN FMul(total, Literal(11, 10)) ELSE total

\* lines 499-502
F64BodyPenalty(hratio, bratio, total) ==
    IF FLess(Literal(5, 10), bratio) /\ FLess(hratio, Literal(3, 10))
    THEN FMul(total, Literal(8, 10)) ELSE total

\* lines 505-509
F64Diversity(evidence, total) ==
    IF Cardinality({ c \in EvidenceCategory : F64Category(evidence, c, Zero) # Zero }) >= 3
    THEN FMul(total, Literal(105, 100)) ELSE total

\* lines 515-529
F64Level(score) ==
    IF ~FLess(score, Literal(98, 100)) THEN "Absolute"
    ELSE IF ~FLess(score, Literal(95, 100)) THEN "NearCertain"
    ELSE IF ~FLess(score, Literal(90, 100)) THEN "VeryHigh"
    ELSE IF ~FLess(score, Literal(80, 100)) THEN "High"
    ELSE IF ~FLess(score, Literal(60, 100)) THEN "Moderate"
    ELSE IF ~FLess(score, Literal(20, 100)) THEN "Low"
    ELSE "None"

F64Result(score) == [score |-> score, level |-> F64Level(score)]

\* lines 493-512
F64Adjust(evidence, hratio, bratio, total) ==
    F64Result(FMin(F64Diversity(evidence,
                       F64BodyPenalty(hratio, bratio, F64HeaderBonus(hratio, total))),
                   Literal(1, 1)))

\* lines 489-490
F64Ratios(evidence, total) ==
    F64Adjust(evidence, F64Ratio(F64Category(evidence, "Headers", Zero), total),
              F64Ratio(F64Category(evidence, "Body", Zero), total), total)

\* AdvancedScoring::calculate_confidence: score and level as the code computes them
F64Confidence(provider, evidence, header_names) ==
    F64Ratios(evidence, F64Penalise(F64Total(evidence, Zero),
                                    NegativeCount(provider, header_names)))

\* the Evidence list in the order p
Permuted(evidence, p) == [i \in DOMAIN evidence |-> evidence[p[i]]]

\* C26: for the same provider and the same response headers, calculate_confidence
\* returns the same score and the same level for every permutation of the
\* Evidence list.
C26_ScoreIndependentOfEvidenceOrder ==
    Scored =>
        \A p \in Permutations(DOMAIN scorer.evidence) :
            F64Confidence(scorer.provider, Permuted(scorer.evidence, p), scorer.header_names)
                = F64Confidence(scorer.provider, scorer.evidence, scorer.header_names)

(***************************************************************************)
(* detect_all: the synthetic sources in the scoring loop (Spec)            *)
(***************************************************************************)
\* C28: the keys of provider_scores are exactly the registered, enabled
\* providers whose Evidence list is not empty; DnsAnalysis, TimingAnalysis and
\* PayloadAnalysis are never keys of provider_scores.
C28_ScoresOnlyForProviders ==
    Returned =>
        /\ DOMAIN Result.provider_scores
              = { n \in providers : enabled(n) /\ Result.evidence_map[n] # <<>> }
        /\ DOMAIN Result.provider_scores \cap SyntheticSources = {}

\* the DetectionResult of the same call, had the timing, DNS and payload
\* analyses returned nothing
WithoutSyntheticSources ==
    BuildDetectionResult(providers, DOMAIN response[1].headers, provider_results.value[1],
                         None, None, None)

\* C29: the Evidence of the timing, DNS and payload analyses influences no
\* registered provider's score and no slot: the result has, for every
\* registered provider, the score, and in both slots the value, of the
\* detection with the same response and the same providers' Evidence in which
\* the three analyses return nothing; so any two detections that differ in
\* the analyses' results only agree on them.
C29_SyntheticSourcesDoNotInterfere ==
    Returned =>
        LET without == WithoutSyntheticSources
        IN  /\ \A n \in providers :
                  /\ n \in DOMAIN Result.provider_scores <=> n \in DOMAIN without.provider_scores
                  /\ n \in DOMAIN Result.provider_scores
                        => Result.provider_scores[n] = without.provider_scores[n]
            /\ Result.detected_waf = without.detected_waf
            /\ Result.detected_cdn = without.detected_cdn

\* a detection in which the payload analysis scored above the provider that
\* holds the waf slot
C29_Witness ==
    /\ Returned
    /\ "PayloadAnalysis" \in DOMAIN Result.provider_scores
    /\ Result.detected_waf # None
    /\ Result.provider_scores["PayloadAnalysis"] > Result.detected_waf[1].confidence

(***************************************************************************)
(* register_provider called from several threads (SpecRegister): the       *)
(* registry is Clone and holds its maps in Arcs, the method takes &self,   *)
(* and each DashMap operation is atomic on its own                         *)
(***************************************************************************)
\* the number of calls of register_provider
MaxCalls == 3

\* the names of the providers the calls register
RegisteredNames == {"CloudFlare", "AWS"}

\* a value of either map is the call whose provider it was built from
CallOf(i) == registry.calls[i]

At(i, where) == i \in DOMAIN registry.calls /\ CallOf(i).at = where

\* line 38: a thread enters register_provider(provider)
RegisterCall(name) ==
    /\ Len(registry.calls) < MaxCalls
    /\ registry' = [registry EXCEPT !.calls =
                        Append(@, [name |-> name, at |-> "contains_key", returned |-> None])]
    /\ UNCHANGED <<engine_vars, scorer, payload, timing, batch, smoke>>

\* lines 40-42: self.providers.contains_key(&name), and the Err when it is true
RegisterContainsKey(i) ==
    /\ At(i, "contains_key")
    /\ registry' = IF CallOf(i).name \in DOMAIN registry.providers
                   THEN [registry EXCEPT !.calls[i].at = "returned",
                                         !.calls[i].returned = Some("Err")]
                   ELSE [registry EXCEPT !.calls[i].at = "insert_provider"]
    /\ UNCHANGED <<engine_vars, scorer, payload, timing, batch, smoke>>

\* lines 44-45: self.providers.insert(name.clone(), provider)
RegisterInsertProvider(i) ==
    /\ At(i, "insert_provider")
    /\ registry' = [registry EXCEPT !.providers = MapInsert(@, CallOf(i).name, i),
                                    !.calls[i].at = "insert_metadata"]
    /\ UNCHANGED <<engine_vars, scorer, payload, timing, batch, smoke>>

\* lines 46-48: self.provider_metadata.insert(name, metadata); Ok(())
RegisterInsertMetadata(i) ==
    /\ At(i, "insert_metadata")
    /\ registry' = [registry EXCEPT !.provider_metadata = MapInsert(@, CallOf(i).name, i),
                                    !.calls[i].at = "returned",
                                    !.calls[i].returned = Some("Ok")]
    /\ UNCHANGED <<engine_vars, scorer, payload, timing, batch, smoke>>

RegisterNext ==
    \/ \E name \in RegisteredNames : RegisterCall(name)
    \/ \E i \in 1..MaxCalls : RegisterContainsKey(i)
    \/ \E i \in 1..MaxCalls : RegisterInsertProvider(i)
    \/ \E i \in 1..MaxCalls : RegisterInsertMetadata(i)

SpecRegister == Init /\ [][RegisterNext]_vars

\* the calls for a name that have returned Ok
OkCalls(name) ==
    { i \in DOMAIN registry.calls : CallOf(i).name = name /\ CallOf(i).returned = Some("Ok") }

\* at most one call for a name returns Ok
AtMostOneOk == \A name \in RegisteredNames : Cardinality(OkCalls(name)) <= 1

\* a step of a call made for a name that both maps hold already changes
\* neither map, and the call returns the error
RefusedCallChangesNothing ==
    \A i \in DOMAIN registry.calls :
        (/\ CallOf(i).at = "contains_key"
         /\ CallOf(i).name \in DOMAIN registry.providers
         /\ registry'.calls[i] # CallOf(i))
            => /\ registry'.providers = registry.providers
               /\ registry'.provider_metadata = registry.provider_metadata
               /\ registry'.calls[i].returned = Some("Err")

\* C30: in every interleaving of calls of register_provider with the same
\* name at most one call returns Ok and the others return the error, and a
\* call for a name that is registered already leaves both maps unchanged.
C30_OneRegistrationPerName == []AtMostOneOk /\ [][RefusedCallChangesNothing]_vars

====
